---- MODULE Spec2Model ----
(***************************************************************************)
(* Model of the task-execution pipeline of the Autonomous Workspace:       *)
(*   - the tool dispatcher (dispatchTool, with the browser->search         *)
(*     fallback),                                                          *)
(*   - the server handlers GET /api/stream-execute and POST /api/execute,  *)
(*   - the client's plan executor (executeTasksSequentially,               *)
(*     executeTaskInternal, handleApproveTask) and its EventSource         *)
(*     callbacks.                                                          *)
(* Text is modelled as a sequence of tokens, so that concatenation and     *)
(* prefixes are real operations.                                           *)
(***************************************************************************)
EXTENDS Integers, Sequences, FiniteSets, TLC

\* ----------------------------------------------------------------- bounds
\* number of tasks of the plan
NumTasks == 2
\* lines one adapter call pushes into onLog
MaxLogs == 1
\* chunks the summarizer stream yields before it ends or fails
MaxChunks == 1
\* clicks on 'Approve & Execute' during one plan
MaxApprove == 1
\* phrases a raw tool result is made of
MaxRaw == 3

\* phrases a query is made of
MaxQuery == 3
\* entries of custom_tools.json
MaxCustom == 2
\* calls of getAvailableTools
MaxCalls == 2
\* calls of updateStage on the contexts of one request
MaxUpdates == 2
\* characters of a path given to the filesystem tool
MaxPath == 5
\* characters of the hostname of a URL given to the browser tool
MaxHost == 5
\* calls of the log functions of the audit module
MaxAuditCalls == 5
\* the number of entries addEntry keeps (100 in the source), scaled
AuditLimit == 3
\* characters kept by the search/browser -> filesystem transform: the
\* substring(0, 10000) of the program at the scale of the texts explored
TransformLimit == 2
\* lines kept by the search/browser -> slack transform: the slice(0, 10) of
\* the program at the scale of the texts explored
SlackLines == 2
\* the length above which a query is a research query: the 100 of the
\* program at the scale of the queries explored
ResearchLength == 8

\* ------------------------------------------------------------------- text
UNDEFINED == <<"<undefined>">>

RECURSIVE ReplaceSlash(_)
\* pathname.replace(/\//g, ' ')
ReplaceSlash(s) ==
    IF s = <<>> THEN <<>>
    ELSE <<(IF Head(s) = "/" THEN " " ELSE Head(s))>> \o ReplaceSlash(Tail(s))

RECURSIVE TrimLeft(_)
TrimLeft(s) ==
    IF s = <<>> THEN <<>>
    ELSE IF Head(s) = " " THEN TrimLeft(Tail(s)) ELSE s

RECURSIVE TrimRight(_)
TrimRight(s) ==
    IF s = <<>> THEN <<>>
    ELSE IF s[Len(s)] = " " THEN TrimRight(SubSeq(s, 1, Len(s) - 1)) ELSE s

\* String.prototype.trim
Trim(s) == TrimRight(TrimLeft(s))

\* ------------------------------------------------------------ the registry
\* names of TOOL_DEFINITIONS, in declaration order
TOOL_DEFINITIONS ==
    <<"filesystem", "github", "slack", "calendar", "terminal",
      "browser", "search", "leetcode", "mcp_registry", "utility">>

BuiltIn == {TOOL_DEFINITIONS[k] : k \in 1..Len(TOOL_DEFINITIONS)}

\* enabled flags under the default environment: only terminal is opt-in
DefaultEnabled == BuiltIn \ {"terminal"}

\* the environments the model explores: the flags of terminal, browser and
\* search vary, every other tool keeps its default
Environments ==
    {(DefaultEnabled \ off) \cup on :
        off \in SUBSET {"browser", "search"}, on \in SUBSET {"terminal"}}

\* the contents of custom_tools.json the model explores
CustomConfigs == SUBSET {"mytool", "browser"}

\* every setting of the flags: mcp_registry is enabled whatever the
\* environment holds
AllEnvironments ==
    {on \cup {"mcp_registry"} : on \in SUBSET (BuiltIn \ {"mcp_registry"})}

\* an entry of the list getAvailableTools returns: a built-in definition
\* or the definition made of a custom tool
ToolDefinition(name, custom) == [name |-> name, enabled |-> TRUE, custom |-> custom]

RECURSIVE Filter(_, _)
\* TOOL_DEFINITIONS.filter(t => t.enabled), on the names
Filter(names, enabledSet) ==
    IF names = <<>> THEN <<>>
    ELSE (IF Head(names) \in enabledSet THEN <<Head(names)>> ELSE <<>>)
            \o Filter(Tail(names), enabledSet)

\* getAvailableTools that lists every built-in tool, whatever its flag
getAvailableToolsAnyFlag(enabledSet, custom) ==
    LET builtIn == TOOL_DEFINITIONS
    IN  [k \in 1..Len(builtIn) |-> ToolDefinition(builtIn[k], FALSE)]
        \o [k \in 1..Len(custom) |-> ToolDefinition(custom[k], TRUE)]

\* getAvailableTools with the custom tools put first
getAvailableToolsCustomFirst(enabledSet, custom) ==
    LET builtIn == Filter(TOOL_DEFINITIONS, enabledSet)
    IN  [k \in 1..Len(custom) |-> ToolDefinition(custom[k], TRUE)]
        \o [k \in 1..Len(builtIn) |-> ToolDefinition(builtIn[k], FALSE)]

\* getAvailableTools: [...builtIn, ...custom]
getAvailableTools(enabledSet, custom) ==
    LET builtIn == Filter(TOOL_DEFINITIONS, enabledSet)
    IN  [k \in 1..Len(builtIn) |-> ToolDefinition(builtIn[k], FALSE)]
        \o [k \in 1..Len(custom) |-> ToolDefinition(custom[k], TRUE)]

\* tool names a request may carry ("" is the absent/empty name)
ToolNames == BuiltIn \cup {"mytool", "nosuch", ""}

\* ------------------------------------------------------------------- URLs
\* payload.url of a browser payload: a URL that `new URL` parses (hostname,
\* pathname), a string it rejects (raw), or no url at all
Urls ==
    { [kind |-> "valid",   hostname |-> <<"h">>, pathname |-> <<"/">>,            raw |-> <<>>],
      [kind |-> "valid",   hostname |-> <<"h">>, pathname |-> <<"/", "a", "/", "b">>, raw |-> <<>>],
      [kind |-> "invalid", hostname |-> <<>>,    pathname |-> <<>>,               raw |-> <<"x">>],
      [kind |-> "invalid", hostname |-> <<>>,    pathname |-> <<>>,               raw |-> <<>>],
      [kind |-> "undefined", hostname |-> <<>>,  pathname |-> <<>>,               raw |-> <<>>] }

PlanUrl == [kind |-> "valid", hostname |-> <<"h">>, pathname |-> <<"/", "a", "/", "b">>, raw |-> <<>>]

\* the search query the browser fallback derives from payload.url
deriveQuery(url) ==
    IF url.kind = "valid"
    THEN Trim(url.hostname \o <<" ">> \o ReplaceSlash(url.pathname))
    ELSE IF url.kind = "invalid" THEN url.raw
    ELSE UNDEFINED

\* ---------------------------------------------------------------- adapters
\* What the external services do during one dispatchTool call: whether the
\* adapter called first throws and how many lines it logs, and the same for
\* the search adapter when it is called as the fallback.
Outcomes ==
    [threw : BOOLEAN, nlogs : 1..MaxLogs, fbThrew : BOOLEAN, fbLogs : 1..MaxLogs]

NotEnabledError(tool) == <<"Tool", tool, "is not enabled or does not exist.">>
UnknownToolError(tool) == <<"Unknown tool:", tool>>
AdapterError(a) == <<"adapter failed:", a>>
AdapterOutput(a) == <<"output of", a>>
SearchLogLine == <<"[Search] progress">>
\* `[Fallback from browser to search]\n\n`
FallbackMarker == <<"[Fallback from browser to search]", "\n", "\n">>

\* one invocation of an adapter, with the search payload where there is one
\* and whether the invocation failed
Call(a, threw) ==
    [adapter |-> a, query |-> <<>>, limit |-> 0, deepFetch |-> FALSE, threw |-> threw]
SearchCall(q, l, d, threw) ==
    [adapter |-> "search", query |-> q, limit |-> l, deepFetch |-> d, threw |-> threw]

Returned(text, logs, calls) ==
    [threw |-> FALSE, text |-> text, logs |-> logs, calls |-> calls]
Thrown(text, logs, calls) ==
    [threw |-> TRUE, text |-> text, logs |-> logs, calls |-> calls]

\* an adapter that takes no onLog: it returns its output or throws
executeAdapter(a, threw) ==
    IF threw THEN Thrown(AdapterError(a), <<>>, <<Call(a, TRUE)>>)
    ELSE Returned(AdapterOutput(a), <<>>, <<Call(a, FALSE)>>)

\* executeSearch: query.toLowerCase() throws on a missing query, a blank
\* query is rejected, otherwise progress lines go to onLog and the adapter
\* returns its result or fails
executeSearch(query, limit, deepFetch, threw, nlogs) ==
    LET failed == <<SearchCall(query, limit, deepFetch, TRUE)>>
        lines == [k \in 1..nlogs |-> SearchLogLine]
    IN  IF query = UNDEFINED
        THEN Thrown(<<"Cannot read properties of undefined">>, <<>>, failed)
        ELSE IF Trim(query) = <<>>
        THEN Thrown(<<"Search query is required">>, <<>>, failed)
        ELSE IF threw THEN Thrown(AdapterError("search"), lines, failed)
        ELSE Returned(AdapterOutput("search"), lines,
                      <<SearchCall(query, limit, deepFetch, FALSE)>>)

\* ------------------------------------------------------------- dispatchTool
\* dispatchBrowser without the fallback: a failure of the browser adapter is
\* passed on to the caller
dispatchBrowserNoFallback(payload, oc) ==
    executeAdapter("browser", oc.threw)

\* case 'browser': executeBrowser, and on any failure the fallback to search
dispatchBrowser(payload, oc) ==
    LET first == executeAdapter("browser", oc.threw)
    IN  IF ~first.threw THEN first
        ELSE LET searchQuery == deriveQuery(payload.url)
                 pre == << <<"[Dispatcher] Browser failed, falling back to search...">>,
                           <<"[Dispatcher] Searching for:">> \o searchQuery >>
                 fb == executeSearch(searchQuery, 5, TRUE, oc.fbThrew, oc.fbLogs)
             IN  IF fb.threw
                 THEN Thrown(fb.text, pre \o fb.logs, first.calls \o fb.calls)
                 ELSE Returned(FallbackMarker \o fb.text, pre \o fb.logs,
                               first.calls \o fb.calls)

\* dispatchTool that hands a name to the custom adapter only when no built-in
\* tool carries it
dispatchToolBuiltInFirst(tool, payload, enabledSet, customSet, oc) ==
    LET toolDef == tool \in BuiltIn
        customToolConfig == tool \in customSet
    IN  IF (~toolDef \/ tool \notin enabledSet) /\ ~customToolConfig
        THEN Thrown(NotEnabledError(tool), <<>>, <<>>)
        ELSE IF customToolConfig /\ ~toolDef THEN executeAdapter("custom", oc.threw)
        ELSE IF tool = "browser" THEN dispatchBrowser(payload, oc)
        ELSE IF tool = "search"
        THEN executeSearch(payload.query, 10, TRUE, oc.threw, oc.nlogs)
        ELSE IF tool \in BuiltIn THEN executeAdapter(tool, oc.threw)
        ELSE Thrown(UnknownToolError(tool), <<>>, <<>>)

\* dispatchTool whose first check looks only at the name, not at the flag
dispatchToolIgnoringFlag(tool, payload, enabledSet, customSet, oc) ==
    LET toolDef == tool \in BuiltIn
        customToolConfig == tool \in customSet
    IN  IF ~toolDef /\ ~customToolConfig
        THEN Thrown(NotEnabledError(tool), <<>>, <<>>)
        ELSE IF customToolConfig THEN executeAdapter("custom", oc.threw)
        ELSE IF tool = "browser" THEN dispatchBrowser(payload, oc)
        ELSE IF tool = "search"
        THEN executeSearch(payload.query, 10, TRUE, oc.threw, oc.nlogs)
        ELSE executeAdapter(tool, oc.threw)

\* dispatchTool(tool, payload, onLog) under the registry (enabledSet, customSet)
dispatchTool(tool, payload, enabledSet, customSet, oc) ==
    LET toolDef == tool \in BuiltIn
        customToolConfig == tool \in customSet
    IN  IF (~toolDef \/ tool \notin enabledSet) /\ ~customToolConfig
        THEN Thrown(NotEnabledError(tool), <<>>, <<>>)
        ELSE IF customToolConfig THEN executeAdapter("custom", oc.threw)
        ELSE IF tool = "browser" THEN dispatchBrowser(payload, oc)
        ELSE IF tool = "search"
        THEN executeSearch(payload.query, 10, TRUE, oc.threw, oc.nlogs)
        ELSE IF tool \in BuiltIn THEN executeAdapter(tool, oc.threw)
        ELSE Thrown(UnknownToolError(tool), <<>>, <<>>)

\* ------------------------------------------------- transformResultForNext
RECURSIVE Flatten(_)
\* the text made of the given phrases, each a sequence of characters
Flatten(phrases) ==
    IF phrases = <<>> THEN <<>> ELSE Head(phrases) \o Flatten(Tail(phrases))

\* the alternatives of the first replace, as the source file spells them and
\* in its order. The file holds each emoji as the Windows-1252 reading of its
\* UTF-8 bytes; the characters are named here: "eth-Yuml" is the pair U+00F0
\* U+0178 every alternative begins with, "rdquo" U+201D, "OElig" U+0152,
\* "ldquo" U+201C, "lsaquo" U+2039, "bdquo" U+201E, "mdash" U+2014.
EmojiPatterns ==
    << <<"eth-Yuml", "rdquo">>, <<"eth-Yuml", "OElig">>,
       <<"eth-Yuml", "ldquo", "lsaquo">>, <<"eth-Yuml", "ldquo", "bdquo">>,
       <<"eth-Yuml", "rdquo", "mdash">> >>

MatchAt(s, i, p) ==
    /\ i + Len(p) - 1 <= Len(s)
    /\ SubSeq(s, i, i + Len(p) - 1) = p

\* length of the text the alternation matches at position i: the first
\* alternative that matches wins; 0 when none does
EmojiMatch(s, i) ==
    LET ks == {k \in 1..Len(EmojiPatterns) : MatchAt(s, i, EmojiPatterns[k])}
    IN  IF ks = {} THEN 0
        ELSE Len(EmojiPatterns[CHOOSE k \in ks : \A j \in ks : k <= j])

RECURSIVE ReplaceEmoji(_, _)
\* result.replace(/.../g, '') from position i on
ReplaceEmoji(s, i) ==
    IF i > Len(s) THEN <<>>
    ELSE IF EmojiMatch(s, i) > 0 THEN ReplaceEmoji(s, i + EmojiMatch(s, i))
    ELSE <<s[i]>> \o ReplaceEmoji(s, i + 1)

RECURSIVE ReplaceBold(_, _)
\* .replace(/\*\*/g, '') from position i on
ReplaceBold(s, i) ==
    IF i > Len(s) THEN <<>>
    ELSE IF MatchAt(s, i, <<"*", "*">>) THEN ReplaceBold(s, i + 2)
    ELSE <<s[i]>> \o ReplaceBold(s, i + 1)

\* .substring(0, n)
Substring0(s, n) == SubSeq(s, 1, IF Len(s) < n THEN Len(s) ELSE n)

RECURSIVE SplitLines(_)
\* result.split('\n'): the empty text is one empty line
SplitLines(s) ==
    IF \A k \in 1..Len(s) : s[k] # "\n" THEN <<s>>
    ELSE LET k == CHOOSE j \in 1..Len(s) : s[j] = "\n" /\ \A h \in 1..(j - 1) : s[h] # "\n"
         IN  <<SubSeq(s, 1, k - 1)>> \o SplitLines(SubSeq(s, k + 1, Len(s)))

RECURSIVE FilterLines(_)
\* .filter(l => l.trim())
FilterLines(lines) ==
    IF lines = <<>> THEN <<>>
    ELSE (IF Trim(Head(lines)) # <<>> THEN <<Head(lines)>> ELSE <<>>)
            \o FilterLines(Tail(lines))

RECURSIVE JoinLines(_)
\* .join('\n')
JoinLines(lines) ==
    IF lines = <<>> THEN <<>>
    ELSE IF Len(lines) = 1 THEN lines[1]
    ELSE lines[1] \o <<"\n">> \o JoinLines(Tail(lines))

\* the transform that keeps blank lines
transformKeepBlank(result, fromTool, toTool) ==
    IF fromTool \in {"search", "browser"} /\ toTool = "filesystem"
    THEN Substring0(ReplaceBold(ReplaceEmoji(result, 1), 1), TransformLimit)
    ELSE IF fromTool \in {"search", "browser"} /\ toTool = "slack"
    THEN JoinLines(Substring0(SplitLines(result), SlackLines))
    ELSE result

transformResultForNext(result, fromTool, toTool) ==
    IF fromTool \in {"search", "browser"} /\ toTool = "filesystem"
    THEN Substring0(ReplaceBold(ReplaceEmoji(result, 1), 1), TransformLimit)
    ELSE IF fromTool \in {"search", "browser"} /\ toTool = "slack"
    THEN JoinLines(Substring0(FilterLines(SplitLines(result)), SlackLines))
    ELSE result

\* sequences over S of length at most n
SeqsUpTo(S, n) == UNION {[1..k -> S] : k \in 0..n}

\* what a raw result is made of: a letter, a line, a blank line, a star,
\* the first and the rest of the last of the spelled alternatives, and the
\* link emoji itself as the search adapter writes it
RawPhrases ==
    { <<"a">>, <<"b", "\n">>, <<" ", "\n">>, <<"*">>,
      <<"eth-Yuml", "rdquo">>, <<"mdash">>, <<"link-emoji">> }

RawResults == {Flatten(ps) : ps \in SeqsUpTo(RawPhrases, MaxRaw)}

\* ----------------------------------------------- dispatchToolWithChaining
\* previousResult ? { ...payload, previousContext: previousResult } : payload
enrichedPayload(payload, previousResult) ==
    IF previousResult # UNDEFINED /\ previousResult # <<>>
    THEN [k \in DOMAIN payload \cup {"previousContext"} |->
             IF k = "previousContext" THEN previousResult ELSE payload[k]]
    ELSE payload

\* result.startsWith('[Fallback')
StartsWithFallback(result) ==
    result # <<>> /\ result[1] \in {"[Fallback from browser to search]", "[Fallback"}

\* a ChainedToolResult; a field that is not set is UNDEFINED
ChainedToolResult(success, tool, result, fallbackUsed, transformedForNext) ==
    [success |-> success, tool |-> tool, result |-> result,
     fallbackUsed |-> fallbackUsed, transformedForNext |-> transformedForNext]

\* what dispatchTool settled with when the adapter's output is the text raw
WithOutput(r, raw) ==
    IF ~r.threw /\ Len(r.text) >= 2 /\ r.text[Len(r.text) - 1] = "output of"
    THEN [r EXCEPT !.text = SubSeq(r.text, 1, Len(r.text) - 2) \o raw]
    ELSE r

\* ------------------------------------------------------ the query intent
\* a query is a sequence of characters; the words tested by the rules are
\* written out character by character

UpperCase ==
    <<"A", "B", "C", "D", "E", "F", "G", "H", "I", "J", "K", "L", "M",
      "N", "O", "P", "Q", "R", "S", "T", "U", "V", "W", "X", "Y", "Z">>

LowerCase ==
    <<"a", "b", "c", "d", "e", "f", "g", "h", "i", "j", "k", "l", "m",
      "n", "o", "p", "q", "r", "s", "t", "u", "v", "w", "x", "y", "z">>

\* the lower-case letter of each of the letters A-Z
LowerOf ==
    [c \in {UpperCase[k] : k \in DOMAIN UpperCase} |->
        LowerCase[CHOOSE k \in DOMAIN UpperCase : UpperCase[k] = c]]

\* String.prototype.toLowerCase, on the letters A-Z
toLowerCase(s) ==
    [i \in 1..Len(s) |-> IF s[i] \in DOMAIN LowerOf THEN LowerOf[s[i]] ELSE s[i]]

\* String.prototype.includes and String.prototype.startsWith
includes(s, w) ==
    \E i \in 1..(Len(s) - Len(w) + 1) : SubSeq(s, i, i + Len(w) - 1) = w

startsWith(s, w) == Len(w) <= Len(s) /\ SubSeq(s, 1, Len(w)) = w

includesAny(s, words) == \E k \in DOMAIN words : includes(s, words[k])

startsWithAny(s, words) == \E k \in DOMAIN words : startsWith(s, words[k])

\* the classes \d and \s and the class [+-*/] of the regular expressions
Digits == {"0", "1", "2", "3", "4", "5", "6", "7", "8", "9"}

WhiteSpace == {" ", "\t", "\n"}

ArithmeticSigns == {"+", "-", "*", "/"}

\* /\d+\s*[+-*/]\s*\d+/ matches somewhere in s: a digit, a sign and a digit
\* with nothing but white space between them
matchesArithmetic(s) ==
    \E i, j \in 1..Len(s) :
        /\ i < j
        /\ s[i] \in Digits
        /\ s[j] \in Digits
        /\ \E o \in (i + 1)..(j - 1) :
              /\ s[o] \in ArithmeticSigns
              /\ \A k \in ((i + 1)..(j - 1)) \ {o} : s[k] \in WhiteSpace

\* the words of the comparison rule
ComparisonWords ==
    << <<" ", "v", "s", " ">>,
       <<"v", "e", "r", "s", "u", "s">>,
       <<"c", "o", "m", "p", "a", "r", "e">>,
       <<"d", "i", "f", "f", "e", "r", "e", "n", "c", "e", " ", "b", "e", "t", "w", "e", "e", "n">>,
       <<"b", "e", "t", "t", "e", "r", " ", "t", "h", "a", "n">> >>

\* the words of the real_time rule
RealTimeWords ==
    << <<"w", "e", "a", "t", "h", "e", "r">>,
       <<"s", "t", "o", "c", "k", " ", "p", "r", "i", "c", "e">>,
       <<"c", "u", "r", "r", "e", "n", "t">>,
       <<"t", "o", "d", "a", "y">>,
       <<"r", "i", "g", "h", "t", " ", "n", "o", "w">>,
       <<"l", "i", "v", "e">> >>

\* the words of the calculation rule, next to the regular expression
CalculationWords ==
    << <<"c", "a", "l", "c", "u", "l", "a", "t", "e">>,
       <<"c", "o", "n", "v", "e", "r", "t">>,
       <<"h", "o", "w", " ", "m", "u", "c", "h", " ", "i", "s">>,
       <<"c", "u", "r", "r", "e", "n", "c", "y">> >>

\* the words of the action rule
ActionWords ==
    << <<"c", "r", "e", "a", "t", "e">>,
       <<"w", "r", "i", "t", "e">>,
       <<"s", "e", "n", "d">>,
       <<"s", "c", "h", "e", "d", "u", "l", "e">>,
       <<"d", "e", "l", "e", "t", "e">>,
       <<"m", "a", "k", "e", " ", "a", " ", "f", "i", "l", "e">> >>

\* the prefixes of the factual rule
FactualPrefixes ==
    << <<"w", "h", "a", "t", " ", "i", "s">>,
       <<"w", "h", "o", " ", "i", "s">>,
       <<"w", "h", "e", "n", " ", "d", "i", "d">>,
       <<"w", "h", "e", "r", "e", " ", "i", "s">>,
       <<"d", "e", "f", "i", "n", "e">> >>

\* the word of the factual rule that may stand anywhere
FactualWords ==
    << <<"m", "e", "a", "n", "i", "n", "g", " ", "o", "f">> >>

\* the words of the research rule
ResearchWords ==
    << <<"e", "x", "p", "l", "a", "i", "n">>,
       <<"h", "o", "w", " ", "d", "o", "e", "s">>,
       <<"w", "h", "y", " ", "i", "s">>,
       <<"r", "e", "s", "e", "a", "r", "c", "h">>,
       <<"a", "n", "a", "l", "y", "s", "i", "s">>,
       <<"i", "n", " ", "d", "e", "p", "t", "h">> >>

\* the words of the creative rule
CreativeWords ==
    << <<"g", "e", "n", "e", "r", "a", "t", "e">>,
       <<"w", "r", "i", "t", "e", " ", "m", "e">>,
       <<"c", "r", "e", "a", "t", "e", " ", "a", " ", "s", "t", "o", "r", "y">>,
       <<"p", "o", "e", "m">>,
       <<"c", "r", "e", "a", "t", "i", "v", "e">> >>

QueryIntents ==
    {"comparison", "real_time", "calculation", "action", "factual", "research",
     "creative", "general"}

\* detectIntent with the factual rule tried first
detectIntentFactualFirst(query) ==
    LET lowerQuery == toLowerCase(query) IN
    IF startsWithAny(lowerQuery, FactualPrefixes) \/ includesAny(lowerQuery, FactualWords)
        THEN "factual"
    ELSE IF includesAny(lowerQuery, ComparisonWords)
        THEN "comparison"
    ELSE IF includesAny(lowerQuery, RealTimeWords)
        THEN "real_time"
    ELSE IF matchesArithmetic(lowerQuery) \/ includesAny(lowerQuery, CalculationWords)
        THEN "calculation"
    ELSE IF includesAny(lowerQuery, ActionWords)
        THEN "action"
    ELSE IF includesAny(lowerQuery, ResearchWords) \/ Len(lowerQuery) > ResearchLength
        THEN "research"
    ELSE IF includesAny(lowerQuery, CreativeWords)
        THEN "creative"
    ELSE "general"

\* detectIntent with the research rule tried before the factual rule
detectIntentResearchFirst(query) ==
    LET lowerQuery == toLowerCase(query) IN
    IF includesAny(lowerQuery, ComparisonWords)
        THEN "comparison"
    ELSE IF includesAny(lowerQuery, RealTimeWords)
        THEN "real_time"
    ELSE IF matchesArithmetic(lowerQuery) \/ includesAny(lowerQuery, CalculationWords)
        THEN "calculation"
    ELSE IF includesAny(lowerQuery, ActionWords)
        THEN "action"
    ELSE IF includesAny(lowerQuery, ResearchWords) \/ Len(lowerQuery) > ResearchLength
        THEN "research"
    ELSE IF startsWithAny(lowerQuery, FactualPrefixes) \/ includesAny(lowerQuery, FactualWords)
        THEN "factual"
    ELSE IF includesAny(lowerQuery, CreativeWords)
        THEN "creative"
    ELSE "general"

\* detectIntent: the category of the first rule that matches
detectIntent(query) ==
    LET lowerQuery == toLowerCase(query) IN
    IF includesAny(lowerQuery, ComparisonWords)
        THEN "comparison"
    ELSE IF includesAny(lowerQuery, RealTimeWords)
        THEN "real_time"
    ELSE IF matchesArithmetic(lowerQuery) \/ includesAny(lowerQuery, CalculationWords)
        THEN "calculation"
    ELSE IF includesAny(lowerQuery, ActionWords)
        THEN "action"
    ELSE IF startsWithAny(lowerQuery, FactualPrefixes) \/ includesAny(lowerQuery, FactualWords)
        THEN "factual"
    ELSE IF includesAny(lowerQuery, ResearchWords) \/ Len(lowerQuery) > ResearchLength
        THEN "research"
    ELSE IF includesAny(lowerQuery, CreativeWords)
        THEN "creative"
    ELSE "general"

\* the alternatives of (?:vs\.?|versus|compared to|or); the optional dot is
\* greedy, so vs. is tried before vs
Separators ==
    << <<"v", "s", ".">>,
       <<"v", "s">>,
       <<"v", "e", "r", "s", "u", "s">>,
       <<"c", "o", "m", "p", "a", "r", "e", "d", " ", "t", "o">>,
       <<"o", "r">> >>

\* the number of white-space characters s begins with
LeadingSpaces(s) ==
    IF \A k \in 1..Len(s) : s[k] \in WhiteSpace THEN Len(s)
    ELSE (CHOOSE k \in 1..Len(s) :
             /\ s[k] \notin WhiteSpace
             /\ \A m \in 1..(k - 1) : s[m] \in WhiteSpace) - 1

NoMatch == [matched |-> FALSE, subject1 |-> <<>>, subject2 |-> <<>>]

\* \s+(.+) on the text after a separator: the white space is greedy and gives
\* back one character when nothing else is left for the group
SubjectAfter(rest) ==
    LET ws == LeadingSpaces(rest) IN
    IF ws = 0 THEN NoMatch
    ELSE IF ws < Len(rest)
        THEN [matched |-> TRUE, subject1 |-> <<>>, subject2 |-> SubSeq(rest, ws + 1, Len(rest))]
    ELSE IF ws >= 2
        THEN [matched |-> TRUE, subject1 |-> <<>>, subject2 |-> <<rest[ws]>>]
    ELSE NoMatch

\* the match with the first group ending at p: white space, a separator
\* (whatever its case, the i flag), white space, the second group
MatchFrom(s, p) ==
    LET rest == SubSeq(s, p + 1, Len(s))
        ws   == LeadingSpaces(rest)
        tail == SubSeq(rest, ws + 1, Len(rest))
        ok   == {k \in DOMAIN Separators :
                    /\ startsWith(toLowerCase(tail), Separators[k])
                    /\ SubjectAfter(SubSeq(tail, Len(Separators[k]) + 1, Len(tail))).matched}
    IN  IF ws = 0 \/ ok = {} THEN NoMatch
        ELSE LET k == CHOOSE k \in ok : \A m \in ok : k <= m
                 after == SubjectAfter(SubSeq(tail, Len(Separators[k]) + 1, Len(tail)))
             IN  [after EXCEPT !.subject1 = SubSeq(s, 1, p)]

\* query.match(/(.+?)\s+(?:vs\.?|versus|compared to|or)\s+(.+)/i) on a query
\* of one line: the first group is lazy, the shortest prefix that lets the
\* rest match
vsMatch(query) ==
    LET ps == {p \in 1..Len(query) : MatchFrom(query, p).matched} IN
    IF ps = {} THEN NoMatch
    ELSE MatchFrom(query, CHOOSE p \in ps : \A m \in ps : p <= m)

FeaturesSuffix == <<" features benefits pros cons">>
RecentSuffix == <<" recent developments 2024">>
ExpertSuffix == <<" expert analysis">>

\* decomposeQuery that separates the subjects whatever the intent
decomposeQueryAnyIntent(query, intent) ==
    LET m == vsMatch(query)
        sides == IF m.matched
                 THEN <<Trim(m.subject1) \o FeaturesSuffix,
                        Trim(m.subject2) \o FeaturesSuffix>>
                 ELSE <<>>
        related == IF intent = "research"
                   THEN <<query \o RecentSuffix, query \o ExpertSuffix>>
                   ELSE <<>>
    IN  <<query>> \o sides \o related

\* decomposeQuery: the original query, then the sub-queries of the intent
decomposeQuery(query, intent) ==
    LET m == vsMatch(query)
        sides == IF intent = "comparison" /\ m.matched
                 THEN <<Trim(m.subject1) \o FeaturesSuffix,
                        Trim(m.subject2) \o FeaturesSuffix>>
                 ELSE <<>>
        related == IF intent = "research"
                   THEN <<query \o RecentSuffix, query \o ExpertSuffix>>
                   ELSE <<>>
    IN  <<query>> \o sides \o related

\* the phrases the queries of the model are made of
QueryPhrases ==
    { <<"x", "y", "z">>,
       <<" ", "v", "s", " ">>,
       <<" ", "V", "S", ".", " ">>,
       <<" ", "o", "r", " ">>,
       <<"c", "o", "m", "p", "a", "r", "e">>,
       <<"l", "i", "v", "e">>,
       <<"2", "+", "2">>,
       <<"s", "e", "n", "d">>,
       <<"W", "h", "a", "t", " ", "i", "s">>,
       <<"e", "x", "p", "l", "a", "i", "n">>,
       <<"p", "o", "e", "m">> }

Queries == {Flatten(ps) : ps \in SeqsUpTo(QueryPhrases, MaxQuery)}


\* ------------------------------------------------- the sandboxed filesystem
\* the separators the path module of a platform accepts, and the one it
\* writes
Separators_(platform) == IF platform = "win32" THEN {"/", "\\"} ELSE {"/"}

Sep(platform) == IF platform = "win32" THEN "\\" ELSE "/"

\* SANDBOX_DIR: an absolute directory
SANDBOX_DIR(platform) == <<Sep(platform), "r", Sep(platform), "s">>

RECURSIVE Segments(_, _, _)
\* the parts of s between separators, cur being the part begun
Segments(s, seps, cur) ==
    IF s = <<>> THEN <<cur>>
    ELSE IF Head(s) \in seps THEN <<cur>> \o Segments(Tail(s), seps, <<>>)
    ELSE Segments(Tail(s), seps, Append(cur, Head(s)))

RECURSIVE normalizeString(_, _, _)
\* normalizeString of the path module: '.' and empty parts are dropped, '..'
\* removes the part before it, or is kept when there is none and the path
\* is relative
normalizeString(parts, allowAboveRoot, res) ==
    IF parts = <<>> THEN res
    ELSE LET part == Head(parts) IN
         IF part = <<>> \/ part = <<".">>
         THEN normalizeString(Tail(parts), allowAboveRoot, res)
         ELSE IF part = <<".", ".">>
         THEN IF res # <<>> /\ res[Len(res)] # <<".", ".">>
              THEN normalizeString(Tail(parts), allowAboveRoot, SubSeq(res, 1, Len(res) - 1))
              ELSE IF allowAboveRoot
              THEN normalizeString(Tail(parts), allowAboveRoot, Append(res, part))
              ELSE normalizeString(Tail(parts), allowAboveRoot, res)
         ELSE normalizeString(Tail(parts), allowAboveRoot, Append(res, part))

RECURSIVE JoinParts(_, _)
JoinParts(parts, sep) ==
    IF parts = <<>> THEN <<>>
    ELSE IF Len(parts) = 1 THEN Head(parts)
    ELSE Head(parts) \o <<sep>> \o JoinParts(Tail(parts), sep)

\* path.normalize
normalize(path, platform) ==
    LET seps == Separators_(platform)
        sep == Sep(platform)
    IN  IF path = <<>> THEN <<".">>
        ELSE LET isAbsolute == path[1] \in seps
                 trailing == path[Len(path)] \in seps
                 body == JoinParts(normalizeString(Segments(path, seps, <<>>),
                                                   ~isAbsolute, <<>>), sep)
             IN  IF body = <<>>
                 THEN IF isAbsolute THEN <<sep>>
                      ELSE IF trailing THEN <<".", sep>> ELSE <<".">>
                 ELSE (IF isAbsolute THEN <<sep>> ELSE <<>>) \o body
                         \o (IF trailing THEN <<sep>> ELSE <<>>)

RECURSIVE StripLeadingDots(_)
\* .replace(/^(\.\.[\/\\])+/, '')
StripLeadingDots(s) ==
    IF Len(s) >= 3 /\ s[1] = "." /\ s[2] = "." /\ s[3] \in {"/", "\\"}
    THEN StripLeadingDots(SubSeq(s, 4, Len(s)))
    ELSE s

\* path.join(a, b): the non-empty arguments, joined and normalized
join(a, b, platform) ==
    IF b = <<>> THEN normalize(a, platform)
    ELSE normalize(a \o <<Sep(platform)>> \o b, platform)

\* path.dirname of an absolute path
dirname(path, platform) ==
    LET seps == Separators_(platform)
        last == CHOOSE k \in 1..Len(path) :
                    /\ path[k] \notin seps
                    /\ \A m \in (k + 1)..Len(path) : path[m] \in seps
        cut  == CHOOSE k \in 1..last :
                    /\ path[k] \in seps
                    /\ \A m \in (k + 1)..last : path[m] \notin seps
    IN  IF \A k \in 1..Len(path) : path[k] \in seps THEN <<Sep(platform)>>
        ELSE IF cut = 1 THEN <<Sep(platform)>>
        ELSE SubSeq(path, 1, cut - 1)

AccessDenied == <<"Access denied: Path outside sandbox">>

\* resolveSandboxPath without the check of the joined path
resolveSandboxPathUnchecked(filePath, platform) ==
    LET normalizedPath == StripLeadingDots(normalize(filePath, platform))
        fullPath == join(SANDBOX_DIR(platform), normalizedPath, platform)
    IN  [denied |-> FALSE, fullPath |-> fullPath]

\* resolveSandboxPath: the path below the sandbox, or 'Access denied'
resolveSandboxPath(filePath, platform) ==
    LET normalizedPath == StripLeadingDots(normalize(filePath, platform))
        fullPath == join(SANDBOX_DIR(platform), normalizedPath, platform)
    IN  [denied |-> ~startsWith(fullPath, SANDBOX_DIR(platform)), fullPath |-> fullPath]

\* the characters the paths of the model are made of
PathChars == {".", "/", "\\", "s"}

Paths == SeqsUpTo(PathChars, MaxPath)

FilesystemActions == {"read", "write", "list", "delete", "mkdir", "chmod"}

\* ------------------------------------------------------- the browser adapter
\* String.prototype.endsWith
endsWith(s, t) ==
    /\ Len(t) <= Len(s)
    /\ SubSeq(s, Len(s) - Len(t) + 1, Len(s)) = t

\* the two hostnames the adapter knows by name, each written as one token
Localhost == <<"localhost">>

Loopback == <<"127.0.0.1">>

\* the domain of the allowlist in the model
AllowedDomain == <<"a", ".", "b">>

\* the hostnames of the URLs of the model
Hostnames ==
    (SeqsUpTo({"a", "b", "x", "."}, MaxHost) \ {<<>>}) \cup {Localhost, Loopback}

\* validateUrl(url).isValid for an http(s) URL: it parses, and its hostname
\* holds a dot, is localhost or is a dotted address
validateUrl(url) ==
    /\ url.parses
    /\ \/ \E k \in 1..Len(url.hostname) : url.hostname[k] = "."
       \/ url.hostname = Localhost
       \/ url.hostname = Loopback

\* isAllowedUrl(url): false when new URL throws
isAllowedUrl(url, domains, allowUnsafe) ==
    /\ url.parses
    /\ \/ \E k \in 1..Len(domains) : endsWith(url.hostname, domains[k])
       \/ url.hostname = Localhost
       \/ url.hostname = Loopback
       \/ allowUnsafe

\* --------------------------------------------------------- the audit module
\* AUDIT_ENABLED as the module sees it: audit.ts has no such switch and
\* always writes, part_010 writes when the variable is 'true'
AuditOn(variant, flag) == variant = "audit.ts" \/ flag

\* JSON.stringify of an entry: a taskId that is undefined is left out
StringifyEntry(entry) ==
    IF "taskId" \notin DOMAIN entry THEN entry
    ELSE IF entry.taskId = UNDEFINED THEN [id |-> entry.id, type |-> entry.type]
    ELSE entry

\* JSON.stringify(log) as saveAuditLog writes it
JsonStringify(entries) == [k \in 1..Len(entries) |-> StringifyEntry(entries[k])]

\* loadAuditLog(): JSON.parse of the file, or no entries when auditing is off
loadAuditLog(file, variant, flag) ==
    IF ~AuditOn(variant, flag) THEN <<>> ELSE file

\* .slice(-n)
SliceLast(entries, n) ==
    IF Len(entries) <= n THEN entries
    ELSE SubSeq(entries, Len(entries) - n + 1, Len(entries))

\* an addEntry that keeps the first entries once the log is full
addEntryKeepFirst(file, entry, variant, flag) ==
    IF ~AuditOn(variant, flag) THEN file
    ELSE LET pushed == Append(loadAuditLog(file, variant, flag), StringifyEntry(entry))
         IN  JsonStringify(IF Len(pushed) > AuditLimit
                           THEN SubSeq(pushed, 1, AuditLimit) ELSE pushed)

\* addEntry(entry): the file after the call
addEntry(file, entry, variant, flag) ==
    IF ~AuditOn(variant, flag) THEN file
    ELSE LET pushed == Append(loadAuditLog(file, variant, flag), StringifyEntry(entry))
         IN  JsonStringify(IF Len(pushed) > AuditLimit
                           THEN SliceLast(pushed, AuditLimit) ELSE pushed)

\* ------------------------------------------------------------------- state
VARIABLES
    enabled,      \* names of the built-in tools whose enabled flag is true
    customTools,  \* names of the tools loaded from custom_tools.json
    tasks,        \* the task cards of the plan, as held in the messages state
    loop,         \* position of executeTasksSequentially: [pc, i]
    approvals,    \* number of clicks on 'Approve & Execute' so far
    streams,      \* one record per stream-execute request (see NoStream)
    started,      \* start events emitted so far, over all requests
    terminals,    \* done/error events emitted so far, over all requests
    exec,         \* the POST /api/execute request, if any
    chain,        \* one call of dispatchToolWithChaining (see NoChain)
    pipeline,     \* one call of createPipelineContext (see NoPipeline)
    registry,     \* calls of getAvailableTools (see NoRegistry)
    sandbox,      \* one call of executeFilesystem (see NoSandbox)
    planReq,      \* the POST /api/plan request, if any (see NoPlanRequest)
    browser,      \* one call of executeBrowser (see NoBrowser)
    auditLog      \* the audit module and its log file (see NoAuditLog)

vars == <<enabled, customTools, tasks, loop, approvals, streams,
          started, terminals, exec, chain, pipeline, registry, sandbox, planReq,
          browser, auditLog>>

Tasks == 1..NumTasks

\* a stream belongs to a task and was opened by the loop or by an approval;
\* task 0 is a request that does not come from the plan executor
StreamIds == (Tasks \X {"loop", "approve"}) \cup {<<0, "direct">>}

Payload(u) == [url |-> u, query |-> <<"q">>]

\* query parameters of a stream-execute request
Request(hasId, tool, payloadStr, payload) ==
    [taskId |-> hasId, tool |-> tool, payloadStr |-> payloadStr, payload |-> payload]

NoRequest == Request(FALSE, "", "", Payload(PlanUrl))

\* no call of dispatchToolWithChaining has been made
NoChain ==
    [pc |-> "idle", tool |-> "", payload |-> Payload(PlanUrl),
     previousResult |-> UNDEFINED, nextTool |-> "", handed |-> Payload(PlanUrl),
     settled |-> Returned(<<>>, <<>>, <<>>), raw |-> <<>>,
     out |-> ChainedToolResult(FALSE, "", <<>>, UNDEFINED, UNDEFINED)]

\* no call of createPipelineContext has been made. objects is the context
\* objects that exist, in the order of their creation, from the place in it
\* of the argument of the last call of updateStage, now the reading of
\* Date.now()
NoPipeline ==
    [pc |-> "idle", query |-> <<>>, intent |-> "general", context |-> UNDEFINED,
     decomposed |-> <<>>, objects |-> <<>>, from |-> 0, now |-> 1]

\* no call of getAvailableTools has been made; custom is CUSTOM_TOOLS as
\* loaded, returned the lists the calls returned, dispatched the calls of
\* dispatchTool made under this registry: the name, whether the call got
\* past the first check, and the adapters it invoked
NoRegistry == [custom |-> <<>>, returned |-> <<>>, dispatched |-> <<>>]

\* no call of executeFilesystem has been made. platform is the flavour of
\* the path module, content whether the payload carries a content, touched
\* the paths handed to fs calls that read or change the file system, error
\* the message of the exception the call ended with, if any
NoSandbox ==
    [pc |-> "idle", platform |-> "posix", action |-> "", path |-> <<>>,
     content |-> FALSE, touched |-> {}, error |-> <<>>]

\* no call of executeBrowser has been made. url is the URL of the payload
\* (whether new URL parses it, and its hostname), allowUnsafe tells whether
\* BROWSER_ALLOW_UNSAFE_URLS is 'true', domains is what readAllowedDomains
\* returns, requests the hostnames of the URLs a network request was made
\* for, error the message the call failed with
NoBrowser ==
    [pc |-> "idle", url |-> [parses |-> FALSE, hostname |-> <<>>],
     skipValidation |-> FALSE, allowUnsafe |-> FALSE, domains |-> <<>>,
     requests |-> <<>>, error |-> <<>>]

\* the audit module with no log file yet. variant is the file the module is
\* built from, flag whether AUDIT_ENABLED is 'true', file the entries of
\* log.json, added the entries the log functions were called with, read
\* what the last getAuditLog returned and after how many entries, reads the
\* number of calls of getAuditLog
NoAuditLog ==
    [variant |-> "audit.ts", flag |-> FALSE, file |-> <<>>, added |-> <<>>,
     read |-> [at |-> 0, entries |-> <<>>], reads |-> 0]

\* no POST /api/plan request has been made. pc: idle, request, planning
\* (awaiting generatePlan), responded; valid tells whether the body passes
\* PlanRequestSchema, key whether GROQ_API_KEY is set, planner counts the
\* calls of generatePlan, code is the status of the response
NoPlanRequest ==
    [pc |-> "idle", valid |-> FALSE, key |-> FALSE, planner |-> 0, code |-> 0]

\* pc: idle (no request), request (received), dispatch (awaiting
\* dispatchTool), summarize (awaiting streamSummarizeToolResult), streaming
\* (inside for-await), ended (res.end() done), closed (EventSource closed).
\* emitted is what the server wrote to the connection; calls, threw and
\* summarizerFailed record what happened during the request; dropped tells
\* that the connection was lost before the server had ended the response;
\* audit is what the handler handed to the audit collaborator and auditThrew
\* whether one of those calls threw; pushed is the lines the adapters gave to
\* onLog during the dispatch.
NoStream ==
    [pc |-> "idle", req |-> NoRequest, emitted |-> <<>>,
     rawResult |-> <<>>, fullSummary |-> <<>>, nchunks |-> 0, calls |-> <<>>,
     threw |-> "none", summarizerFailed |-> FALSE, promise |-> "none",
     dropped |-> FALSE, audit |-> <<>>, auditThrew |-> FALSE, pushed |-> <<>>]

\* the entry logTaskExecuted and logError hand to addEntry
AuditEntry(type, text) == [type |-> type, text |-> text]

Event(type, data) == [type |-> type, data |-> data]

IsTerminal(e) == e.type \in {"done", "error"}

\* contents of chunk.choices[0]?.delta?.content || ''
ChunkContents == {<<>>, <<"s">>}

\* ---------------------------------- the EventSource callbacks (App.tsx)
\* a card that is taken for the one of another task that shows the same tool
MatchesTaskByTool(card, t) == card.tool = tasks[t].tool

\* msg.task?.id === taskId, t being the task the caller holds
MatchesTask(card, t) == card.id = tasks[t].id

\* { ...msg.task, ...updates }
Merge(card, updates) ==
    [f \in DOMAIN card |-> IF f \in DOMAIN updates THEN updates[f] ELSE card[f]]

\* updateTaskInMessages(task.id, updates): prev.map over the cards
updateTaskInMessages(t, updates) ==
    [k \in DOMAIN tasks |->
        IF MatchesTask(tasks[k], t) THEN Merge(tasks[k], updates) ELSE tasks[k]]

\* onEvent of executeTaskInternal, applied to the card of the stream's task
onEvent(task, e) ==
    IF e.type = "log" THEN [task EXCEPT !.logs = @ \o <<e.data>>]
    ELSE IF e.type = "summary_chunk" THEN [task EXCEPT !.result = @ \o e.data]
    ELSE IF e.type = "done" THEN Merge(task, [status |-> "success"])
    ELSE IF e.type = "error" THEN Merge(task, [status |-> "failed", error |-> e.data])
    ELSE task

RECURSIVE onEvents(_, _)
\* the callbacks for several events, in the order of the connection
onEvents(task, events) ==
    IF events = <<>> THEN task
    ELSE onEvents(onEvent(task, Head(events)), Tail(events))

\* the callbacks of the stream of task t: each goes over the cards and
\* changes the one with the id of t
Deliver(t, events) ==
    [k \in DOMAIN tasks |->
        IF MatchesTask(tasks[k], t) THEN onEvents(tasks[k], events) ELSE tasks[k]]

\* resolve() on done, reject() on error
Settle(promise, events) ==
    IF \E k \in 1..Len(events) : events[k].type = "done" THEN "resolved"
    ELSE IF \E k \in 1..Len(events) : events[k].type = "error" THEN "rejected"
    ELSE promise

\* ------------------------------------------- GET /api/stream-execute (server)
\* sendEvent for each of the events, st being the handler's state after them.
\* A connection delivers its events in order and the requests share nothing
\* on the server, so an event of a plan's stream reaches the client's
\* callback as it is written; the listener of done/error closes the
\* EventSource. Of a closed stream only the record of its traffic is kept.
\* What is written to a connection that was lost reaches no callback.
Emit(s, st, events) ==
    LET after == [st EXCEPT !.emitted = @ \o events]
        fromPlan == s[1] \in Tasks
        closing == \E k \in 1..Len(events) : IsTerminal(events[k])
    IN  /\ streams' = [streams EXCEPT ![s] =
              IF fromPlan /\ closing
              THEN [NoStream EXCEPT !.pc = "closed", !.req = after.req,
                       !.emitted = after.emitted, !.calls = after.calls,
                       !.threw = after.threw, !.dropped = after.dropped,
                       !.audit = after.audit, !.auditThrew = after.auditThrew,
                       !.pushed = after.pushed,
                       !.promise = IF after.dropped THEN after.promise
                                   ELSE Settle(after.promise, events)]
              ELSE after]
        /\ tasks' = IF fromPlan /\ ~st.dropped
                    THEN Deliver(s[1], events)
                    ELSE tasks
        /\ started' = started + Cardinality({k \in 1..Len(events) : events[k].type = "start"})
        /\ terminals' = terminals + Cardinality({k \in 1..Len(events) : IsTerminal(events[k])})

\* a handler that announces the task before it has looked at the request
ServerParseStartFirst(s) ==
    /\ streams[s].pc = "request"
    /\ LET st == streams[s]
           req == st.req
       IN  IF ~req.taskId \/ req.tool = "" \/ req.payloadStr = ""
           THEN Emit(s, [st EXCEPT !.pc = "ended"],
                     <<Event("start", <<>>),
                       Event("error", <<"Missing required parameters">>)>>)
           ELSE IF req.payloadStr = "badjson"
           THEN Emit(s, [st EXCEPT !.pc = "ended"],
                     <<Event("start", <<>>),
                       Event("error", <<"Invalid payload JSON">>)>>)
           ELSE Emit(s, [st EXCEPT !.pc = "dispatch"], <<Event("start", <<>>)>>)
    /\ UNCHANGED <<enabled, customTools, loop, approvals, exec, chain, pipeline,
                   registry, sandbox, planReq,
                   browser, auditLog>>

\* parameter checks and event 'start'
ServerParse(s) ==
    /\ streams[s].pc = "request"
    /\ LET st == streams[s]
           req == st.req
       IN  IF ~req.taskId \/ req.tool = "" \/ req.payloadStr = ""
           THEN Emit(s, [st EXCEPT !.pc = "ended"],
                     <<Event("error", <<"Missing required parameters">>)>>)
           ELSE IF req.payloadStr = "badjson"
           THEN Emit(s, [st EXCEPT !.pc = "ended"],
                     <<Event("error", <<"Invalid payload JSON">>)>>)
           ELSE Emit(s, [st EXCEPT !.pc = "dispatch"], <<Event("start", <<>>)>>)
    /\ UNCHANGED <<enabled, customTools, loop, approvals, exec, chain, pipeline,
                   registry, sandbox, planReq,
                   browser, auditLog>>

\* a handler that keeps the lines of onLog and writes them after the
\* dispatch, the newest first
ServerDispatchNewestFirst(s) ==
    /\ streams[s].pc = "dispatch"
    /\ \E oc \in Outcomes :
         LET r == dispatchTool(streams[s].req.tool, streams[s].req.payload,
                               enabled, customTools, oc)
             logEvents == [k \in 1..Len(r.logs) |->
                              Event("log", r.logs[Len(r.logs) + 1 - k])]
         IN  IF r.threw
             THEN Emit(s, [streams[s] EXCEPT !.pc = "ended", !.calls = r.calls, !.pushed = r.logs,
                              !.threw = "yes"],
                       logEvents \o <<Event("error", r.text)>>)
             ELSE Emit(s, [streams[s] EXCEPT !.pc = "summarize", !.calls = r.calls, !.pushed = r.logs,
                              !.threw = "no", !.rawResult = r.text],
                       logEvents \o <<Event("tool_result", r.text)>>)
    /\ UNCHANGED <<enabled, customTools, loop, approvals, exec, chain, pipeline,
                   registry, sandbox, planReq,
                   browser, auditLog>>

\* await dispatchTool(tool, payload, onLog), then tool_result or error
ServerDispatch(s) ==
    /\ streams[s].pc = "dispatch"
    /\ \E oc \in Outcomes :
         LET r == dispatchTool(streams[s].req.tool, streams[s].req.payload,
                               enabled, customTools, oc)
             logEvents == [k \in 1..Len(r.logs) |-> Event("log", r.logs[k])]
         IN  IF r.threw
             THEN Emit(s, [streams[s] EXCEPT !.pc = "ended", !.calls = r.calls, !.pushed = r.logs,
                              !.threw = "yes"],
                       logEvents \o <<Event("error", r.text)>>)
             ELSE Emit(s, [streams[s] EXCEPT !.pc = "summarize", !.calls = r.calls, !.pushed = r.logs,
                              !.threw = "no", !.rawResult = r.text],
                       logEvents \o <<Event("tool_result", r.text)>>)
    /\ UNCHANGED <<enabled, customTools, loop, approvals, exec, chain, pipeline,
                   registry, sandbox, planReq,
                   browser, auditLog>>

\* a catch around the summary that reports the failure as the task's error
RawFallbackAsError(s) ==
    Emit(s, [streams[s] EXCEPT !.pc = "ended", !.summarizerFailed = TRUE],
         <<Event("error", <<"Summarization failed">>)>>)

\* the catch around the summary: the raw result as one chunk, then done
RawFallback(s) ==
    Emit(s, [streams[s] EXCEPT !.pc = "ended", !.summarizerFailed = TRUE],
         <<Event("summary_chunk", streams[s].rawResult),
           Event("done", streams[s].rawResult)>>)

\* await streamSummarizeToolResult(...) returns the stream or throws
SummarizerOpen(s) ==
    /\ streams[s].pc = "summarize"
    /\ \E ok \in BOOLEAN :
         IF ok
         THEN Emit(s, [streams[s] EXCEPT !.pc = "streaming", !.fullSummary = <<>>], <<>>)
         ELSE RawFallback(s)
    /\ UNCHANGED <<enabled, customTools, loop, approvals, exec, chain, pipeline,
                   registry, sandbox, planReq,
                   browser, auditLog>>

\* one iteration of for-await: empty contents are skipped
SummarizerChunk(s) ==
    /\ streams[s].pc = "streaming"
    /\ streams[s].nchunks < MaxChunks
    /\ \E content \in ChunkContents :
         IF content # <<>>
         THEN Emit(s, [streams[s] EXCEPT !.nchunks = @ + 1, !.fullSummary = @ \o content],
                   <<Event("summary_chunk", content)>>)
         ELSE Emit(s, [streams[s] EXCEPT !.nchunks = @ + 1], <<>>)
    /\ UNCHANGED <<enabled, customTools, loop, approvals, exec, chain, pipeline,
                   registry, sandbox, planReq,
                   browser, auditLog>>

\* the summarizer stream throws during iteration
SummarizerFail(s) ==
    /\ streams[s].pc = "streaming"
    /\ RawFallback(s)
    /\ UNCHANGED <<enabled, customTools, loop, approvals, exec, chain, pipeline,
                   registry, sandbox, planReq,
                   browser, auditLog>>

\* the summarizer stream ends: logTaskExecuted, then done; an exception of
\* logTaskExecuted lands in the catch around the summary
SummarizerEnd(s) ==
    /\ streams[s].pc = "streaming"
    /\ \E auditThrows \in BOOLEAN :
         LET st == [streams[s] EXCEPT !.pc = "ended", !.auditThrew = auditThrows,
                       !.audit = @ \o <<AuditEntry("execute", streams[s].fullSummary)>>]
         IN  IF auditThrows
             THEN Emit(s, st, <<Event("summary_chunk", streams[s].rawResult),
                                Event("done", streams[s].rawResult)>>)
             ELSE Emit(s, st, <<Event("done", streams[s].fullSummary)>>)
    /\ UNCHANGED <<enabled, customTools, loop, approvals, exec, chain, pipeline,
                   registry, sandbox, planReq,
                   browser, auditLog>>

\* ------------------------------------------------ POST /api/execute (server)
\* pc: idle, request, dispatch, summarize, responded, hung (the handler's
\* promise rejected without a response)
NoExec ==
    [pc |-> "idle", valid |-> FALSE, tool |-> "", payload |-> Payload(PlanUrl),
     rawResult |-> <<>>, calls |-> <<>>, threw |-> "none", summarizerFailed |-> FALSE,
     audit |-> <<>>, auditThrew |-> FALSE,
     response |-> [code |-> 0, success |-> FALSE, result |-> <<>>, error |-> <<>>]]

Respond(code, success, result, error) ==
    [code |-> code, success |-> success, result |-> result, error |-> error]

\* what summarizeToolResult returns for a raw result
SummaryOf(raw) == <<"summary of">> \o raw

\* ExecuteRequestSchema.safeParse(req.body)
ExecValidate ==
    /\ exec.pc = "request"
    /\ exec' = IF exec.valid THEN [exec EXCEPT !.pc = "dispatch"]
               ELSE [exec EXCEPT !.pc = "responded",
                        !.response = Respond(400, FALSE, <<>>, <<"Invalid request">>)]
    /\ UNCHANGED <<enabled, customTools, tasks, loop, approvals, streams, started, terminals,
                 chain, pipeline,
                   registry, sandbox, planReq,
                   browser, auditLog>>

\* the outer catch: logError, then the 500 response
ExecCatch(message, logErrorThrows) ==
    IF logErrorThrows
    THEN [exec EXCEPT !.pc = "hung", !.auditThrew = TRUE,
             !.audit = @ \o <<AuditEntry("error", message)>>]
    ELSE [exec EXCEPT !.pc = "responded",
             !.audit = @ \o <<AuditEntry("error", message)>>,
             !.response = Respond(500, FALSE, <<>>, message)]

\* await dispatchTool(tool, payload)
ExecDispatch ==
    /\ exec.pc = "dispatch"
    /\ \E oc \in Outcomes, logErrorThrows \in BOOLEAN :
         LET r == dispatchTool(exec.tool, exec.payload, enabled, customTools, oc)
         IN  exec' = IF r.threw
                     THEN [ExecCatch(r.text, logErrorThrows) EXCEPT
                              !.calls = r.calls, !.threw = "yes"]
                     ELSE [exec EXCEPT !.pc = "summarize", !.rawResult = r.text,
                              !.calls = r.calls, !.threw = "no"]
    /\ UNCHANGED <<enabled, customTools, tasks, loop, approvals, streams, started, terminals,
                 chain, pipeline,
                   registry, sandbox, planReq,
                   browser, auditLog>>

\* summarizeToolResult in its own try/catch, logTaskExecuted, the response
ExecSummarize ==
    /\ exec.pc = "summarize"
    /\ \E summarizerThrows \in BOOLEAN, auditThrows \in BOOLEAN, logErrorThrows \in BOOLEAN :
         LET summarizedResult == IF summarizerThrows THEN exec.rawResult
                                 ELSE SummaryOf(exec.rawResult)
             noted == [exec EXCEPT !.summarizerFailed = summarizerThrows]
             entry == AuditEntry("execute", summarizedResult)
         IN  exec' = IF auditThrows
                     THEN [ExecCatch(<<"audit write failed">>, logErrorThrows) EXCEPT
                              !.summarizerFailed = summarizerThrows,
                              !.auditThrew = TRUE, !.audit = <<entry>> \o @]
                     ELSE [noted EXCEPT !.pc = "responded", !.audit = @ \o <<entry>>,
                              !.response = Respond(200, TRUE, summarizedResult, <<>>)]
    /\ UNCHANGED <<enabled, customTools, tasks, loop, approvals, streams, started, terminals,
                 chain, pipeline,
                   registry, sandbox, planReq,
                   browser, auditLog>>

\* --------------------------------------------------- POST /api/plan (server)
\* PlanRequestSchema.safeParse(req.body) and the check of GROQ_API_KEY
PlanValidate ==
    /\ planReq.pc = "request"
    /\ planReq' = IF ~planReq.valid THEN [planReq EXCEPT !.pc = "responded", !.code = 400]
                  ELSE IF ~planReq.key THEN [planReq EXCEPT !.pc = "responded", !.code = 500]
                  ELSE [planReq EXCEPT !.pc = "planning", !.planner = @ + 1]
    /\ UNCHANGED <<enabled, customTools, tasks, loop, approvals, streams, started,
                   terminals, exec, chain, pipeline, registry, sandbox,
                   browser, auditLog>>

\* await generatePlan(text) returns the plan or throws
PlanGenerate ==
    /\ planReq.pc = "planning"
    /\ \E threw \in BOOLEAN :
          planReq' = [planReq EXCEPT !.pc = "responded",
                         !.code = IF threw THEN 500 ELSE 200]
    /\ UNCHANGED <<enabled, customTools, tasks, loop, approvals, streams, started,
                   terminals, exec, chain, pipeline, registry, sandbox,
                   browser, auditLog>>

\* ------------------------------------------------------ the client (App.tsx)
\* executeTaskInternal that hands the result of the task before to the tool
executeTaskInternalChained(t, origin) ==
    /\ tasks' = updateTaskInMessages(t, [status |-> "executing", result |-> <<>>])
    /\ streams' = [streams EXCEPT ![<<t, origin>>] =
                      [NoStream EXCEPT !.pc = "request", !.promise = "pending",
                          !.req = Request(TRUE, tasks[t].tool, "json",
                                     enrichedPayload(tasks[t].payload,
                                        IF t > 1 THEN tasks[t - 1].result ELSE UNDEFINED))]]

\* executeTaskInternal up to the call of streamExecuteTask: the card goes to
\* executing with an empty result and the EventSource is opened
executeTaskInternal(t, origin) ==
    /\ tasks' = updateTaskInMessages(t, [status |-> "executing", result |-> <<>>])
    /\ streams' = [streams EXCEPT ![<<t, origin>>] =
                      [NoStream EXCEPT !.pc = "request", !.promise = "pending",
                          !.req = Request(TRUE, tasks[t].tool, "json", tasks[t].payload)]]

\* handleSend calls executeTasksSequentially, which runs up to its first await
HandleSend ==
    /\ loop.pc = "init"
    /\ executeTaskInternal(1, "loop")
    /\ loop' = [pc |-> "await", i |-> 1]
    /\ UNCHANGED <<enabled, customTools, approvals, started, terminals, exec, chain, pipeline,
                   registry, sandbox, planReq,
                   browser, auditLog>>

\* a loop that gives up at the first rejected task
LoopContinueStopOnFailure ==
    /\ loop.pc = "await"
    /\ streams[<<loop.i, "loop">>].promise \in {"resolved", "rejected"}
    /\ IF loop.i = NumTasks \/ streams[<<loop.i, "loop">>].promise = "rejected"
       THEN /\ loop' = [pc |-> "done", i |-> loop.i]
            /\ UNCHANGED <<tasks, streams>>
       ELSE /\ loop' = [pc |-> "delay", i |-> loop.i]
            /\ UNCHANGED <<tasks, streams>>
    /\ UNCHANGED <<enabled, customTools, approvals, started, terminals, exec, chain, pipeline,
                   registry, sandbox, planReq,
                   browser, auditLog>>

\* the promise of task i settled: after a resolve the loop waits 300 ms
\* unless i was the last task, after a reject it goes on at once
LoopContinue ==
    /\ loop.pc = "await"
    /\ streams[<<loop.i, "loop">>].promise \in {"resolved", "rejected"}
    /\ IF loop.i = NumTasks
       THEN /\ loop' = [pc |-> "done", i |-> loop.i]
            /\ UNCHANGED <<tasks, streams>>
       ELSE IF streams[<<loop.i, "loop">>].promise = "resolved"
       THEN /\ loop' = [pc |-> "delay", i |-> loop.i]
            /\ UNCHANGED <<tasks, streams>>
       ELSE /\ loop' = [pc |-> "await", i |-> loop.i + 1]
            /\ executeTaskInternal(loop.i + 1, "loop")
    /\ UNCHANGED <<enabled, customTools, approvals, started, terminals, exec, chain, pipeline,
                   registry, sandbox, planReq,
                   browser, auditLog>>

\* the 300 ms timer fired: next iteration
LoopDelayElapsed ==
    /\ loop.pc = "delay"
    /\ loop' = [pc |-> "await", i |-> loop.i + 1]
    /\ executeTaskInternal(loop.i + 1, "loop")
    /\ UNCHANGED <<enabled, customTools, approvals, started, terminals, exec, chain, pipeline,
                   registry, sandbox, planReq,
                   browser, auditLog>>

\* click on 'Approve & Execute', rendered on a card whose status is pending
\* (cards are rendered only after handleSend has run)
handleApproveTask(t) ==
    /\ loop.pc # "init"
    /\ tasks[t].status = "pending"
    /\ approvals < MaxApprove
    /\ approvals' = approvals + 1
    /\ executeTaskInternal(t, "approve")
    /\ UNCHANGED <<enabled, customTools, loop, started, terminals, exec, chain, pipeline,
                   registry, sandbox, planReq,
                   browser, auditLog>>

\* the connection of a stream is lost while the server has not ended the
\* response: the EventSource fires 'error' without data, the listener
\* reports 'Stream connection error' and closes; the handler on the server
\* has no listener for the close of the request and goes on
ConnectionDrop(s) ==
    /\ streams[s].pc \in {"request", "dispatch", "summarize", "streaming"}
    /\ ~streams[s].dropped
    /\ streams' = [streams EXCEPT ![s].dropped = TRUE, ![s].promise = "rejected"]
    /\ tasks' = Deliver(s[1], <<Event("error", <<"Stream connection error">>)>>)
    /\ UNCHANGED <<enabled, customTools, loop, approvals, started, terminals, exec,
                   chain, pipeline, registry, sandbox, planReq,
                   browser, auditLog>>

\* ------------------------------------ dispatchToolWithChaining (part_003)
\* what the caller does with a failed dispatch when nothing catches it
ChainReturnRethrow ==
    /\ chain.pc = "settled"
    /\ LET r == chain.settled
       IN  chain' =
             IF r.threw THEN [chain EXCEPT !.pc = "thrown"]
             ELSE [chain EXCEPT !.pc = "returned",
                      !.out = ChainedToolResult(TRUE, chain.tool, r.text,
                                 IF StartsWithFallback(r.text) THEN <<"search">> ELSE UNDEFINED,
                                 IF chain.nextTool # "" /\ r.text # <<>>
                                 THEN transformResultForNext(r.text, chain.tool, chain.nextTool)
                                 ELSE UNDEFINED)]
    /\ UNCHANGED <<enabled, customTools, tasks, loop, approvals, streams,
                   started, terminals, exec, pipeline,
                   registry, sandbox, planReq,
                   browser, auditLog>>

\* the payload is enriched and dispatchTool is awaited; the adapter that
\* returns, returns the text raw
ChainCall ==
    /\ chain.pc = "called"
    /\ \E oc \in Outcomes, raw \in RawResults :
         LET handed == enrichedPayload(chain.payload, chain.previousResult)
             r == WithOutput(dispatchTool(chain.tool, handed, enabled, customTools, oc), raw)
         IN  chain' = [chain EXCEPT !.pc = "settled", !.handed = handed, !.settled = r,
                          !.raw = IF r.threw THEN <<>> ELSE raw]
    /\ UNCHANGED <<enabled, customTools, tasks, loop, approvals, streams,
                   started, terminals, exec, pipeline,
                   registry, sandbox, planReq,
                   browser, auditLog>>

\* the rest of the try block, or the catch
ChainReturn ==
    /\ chain.pc = "settled"
    /\ LET r == chain.settled
       IN  chain' = [chain EXCEPT !.pc = "returned",
                !.out = IF r.threw
                        THEN ChainedToolResult(FALSE, chain.tool, r.text, UNDEFINED, UNDEFINED)
                        ELSE ChainedToolResult(TRUE, chain.tool, r.text,
                                 IF StartsWithFallback(r.text) THEN <<"search">> ELSE UNDEFINED,
                                 IF chain.nextTool # "" /\ r.text # <<>>
                                 THEN transformResultForNext(r.text, chain.tool, chain.nextTool)
                                 ELSE UNDEFINED)]
    /\ UNCHANGED <<enabled, customTools, tasks, loop, approvals, streams,
                   started, terminals, exec, pipeline,
                   registry, sandbox, planReq,
                   browser, auditLog>>

\* --------------------------------------------------------- getAvailableTools
\* one call of getAvailableTools, e.g. by GET /api/health
GetAvailableTools ==
    /\ Len(registry.returned) < MaxCalls
    /\ registry' = [registry EXCEPT
                       !.returned = Append(@, getAvailableTools(enabled, registry.custom))]
    /\ UNCHANGED <<enabled, customTools, tasks, loop, approvals, streams, started,
                   terminals, exec, chain, pipeline, sandbox, planReq,
                   browser, auditLog>>

\* one call of dispatchTool under the registry the lists are taken from
DispatchUnderRegistry ==
    /\ registry.dispatched = <<>>
    /\ \E tool \in ToolNames, threw \in BOOLEAN, fbThrew \in BOOLEAN :
         LET oc == [threw |-> threw, nlogs |-> 1, fbThrew |-> fbThrew, fbLogs |-> 1]
             r == dispatchTool(tool, Payload(PlanUrl), enabled, customTools, oc)
         IN  registry' = [registry EXCEPT !.dispatched = Append(@,
                            [tool |-> tool,
                             passed |-> ~(r.threw /\ r.text = NotEnabledError(tool)),
                             adapters |-> [k \in 1..Len(r.calls) |-> r.calls[k].adapter]])]
    /\ UNCHANGED <<enabled, customTools, tasks, loop, approvals, streams, started,
                   terminals, exec, chain, pipeline, sandbox, planReq,
                   browser, auditLog>>

\* --------------------------------------------------------- executeFilesystem
\* what a call that got as far as its fs calls leaves in the record: exists
\* is the answer of existsSync for the path, dirExists the one for its
\* directory
Touched(full, platform, action, exists, dirExists) ==
    {SANDBOX_DIR(platform)}
        \cup (IF action \in {"read", "list", "delete"} /\ ~exists THEN {}
              ELSE IF action = "mkdir" /\ exists THEN {}
              ELSE {full})
        \cup (IF action = "write" /\ ~dirExists THEN {dirname(full, platform)} ELSE {})

\* executeFilesystem(payload): ensureSandbox and resolveSandboxPath, then the
\* fs calls of the action
ExecuteFilesystem ==
    /\ sandbox.pc = "called"
    /\ \E exists \in BOOLEAN, dirExists \in BOOLEAN :
         LET pf == sandbox.platform
             given == IF sandbox.action = "list" /\ sandbox.path = <<>>
                      THEN <<".">> ELSE sandbox.path
             r == resolveSandboxPath(given, pf)
             \* the directory that holds the sandbox exists once ensureSandbox ran
             dirThere == dirExists \/ startsWith(SANDBOX_DIR(pf), dirname(r.fullPath, pf))
         IN  sandbox' =
               IF sandbox.action \notin {"read", "write", "list", "delete", "mkdir"}
               THEN [sandbox EXCEPT !.pc = "done", !.error = <<"Unknown filesystem action">>]
               ELSE IF sandbox.action = "write" /\ ~sandbox.content
               THEN [sandbox EXCEPT !.pc = "done", !.error = <<"Content is required">>]
               ELSE IF r.denied
               THEN [sandbox EXCEPT !.pc = "done", !.error = AccessDenied,
                        !.touched = {SANDBOX_DIR(pf)}]
               ELSE [sandbox EXCEPT !.pc = "done",
                        !.error = IF sandbox.action \in {"read", "list", "delete"} /\ ~exists
                                  THEN <<"not found">> ELSE <<>>,
                        !.touched = Touched(r.fullPath, pf, sandbox.action, exists, dirThere)]
    /\ UNCHANGED <<enabled, customTools, tasks, loop, approvals, streams, started,
                   terminals, exec, chain, pipeline, registry, planReq,
                   browser, auditLog>>

\* ------------------------------------- logPlanGenerated / logTaskExecuted / logError
\* one call of a log function: the entry gets a fresh id; logError may be
\* called without a task id
LogCall ==
    /\ Len(auditLog.added) < MaxAuditCalls
    /\ \E type \in {"plan", "execute", "error"}, taskId \in {<<"t">>, UNDEFINED} :
         /\ (taskId = UNDEFINED => type = "error")
         /\ LET entry == [id |-> Len(auditLog.added) + 1, type |-> type, taskId |-> taskId]
            IN  auditLog' = [auditLog EXCEPT
                               !.file = addEntry(@, entry, auditLog.variant, auditLog.flag),
                               !.added = Append(@, entry)]
    /\ UNCHANGED <<enabled, customTools, tasks, loop, approvals, streams, started,
                   terminals, exec, chain, pipeline, registry, sandbox, planReq,
                   browser>>

\* getAuditLog()
GetAuditLog ==
    /\ auditLog.reads < MaxCalls
    /\ auditLog' = [auditLog EXCEPT
                       !.read = [at |-> Len(auditLog.added),
                                 entries |-> loadAuditLog(auditLog.file, auditLog.variant,
                                                          auditLog.flag)],
                       !.reads = @ + 1]
    /\ UNCHANGED <<enabled, customTools, tasks, loop, approvals, streams, started,
                   terminals, exec, chain, pipeline, registry, sandbox, planReq,
                   browser>>

\* ------------------------------------------------------------ executeBrowser
\* executeBrowser(payload): the validation of the URL unless the payload
\* skips it, the allowlist check, then the request
ExecuteBrowser ==
    /\ browser.pc = "called"
    /\ browser' =
         IF ~browser.skipValidation /\ ~validateUrl(browser.url)
         THEN [browser EXCEPT !.pc = "done", !.error = <<"Invalid URL">>]
         ELSE IF ~browser.allowUnsafe
                 /\ ~isAllowedUrl(browser.url, browser.domains, browser.allowUnsafe)
         THEN [browser EXCEPT !.pc = "done", !.error = <<"URL not allowed">>]
         ELSE [browser EXCEPT !.pc = "done",
                  !.requests = Append(@, browser.url.hostname)]
    /\ UNCHANGED <<enabled, customTools, tasks, loop, approvals, streams, started,
                   terminals, exec, chain, pipeline, registry, sandbox, planReq,
                   auditLog>>

\* ---------------------------------------------------- createPipelineContext
\* the fields of a new context next to the query, its intent and its
\* sub-queries
NewContext ==
    [selectedTool |-> <<>>, taskResults |-> <<>>, finalAnswer |-> <<>>,
     citations |-> <<>>, stage |-> "idle", progress |-> 0]

\* a time that is not there, and one that is
NoTime == [defined |-> FALSE, at |-> 0]

Time(at) == [defined |-> TRUE, at |-> at]

\* the context object createPipelineContext returns: endTime is not set
ContextObject(query, intent, decomposed, startTime) ==
    [originalQuery |-> query, intent |-> intent, decomposedQueries |-> decomposed,
     selectedTool |-> NewContext.selectedTool, taskResults |-> NewContext.taskResults,
     finalAnswer |-> NewContext.finalAnswer, citations |-> NewContext.citations,
     stage |-> NewContext.stage, progress |-> NewContext.progress,
     startTime |-> startTime, endTime |-> NoTime]

\* createPipelineContext(query)
createPipelineContext ==
    /\ pipeline.pc = "idle"
    /\ LET intent == detectIntent(pipeline.query)
           decomposed == decomposeQuery(pipeline.query, intent)
       IN  pipeline' = [pipeline EXCEPT !.pc = "created", !.intent = intent,
                          !.decomposed = decomposed,
                          !.context = NewContext,
                          !.objects = <<ContextObject(pipeline.query, intent, decomposed,
                                                      pipeline.now)>>,
                          !.now = @ + 1]
    /\ UNCHANGED <<enabled, customTools, tasks, loop, approvals, streams,
                   started, terminals, exec, chain,
                   registry, sandbox, planReq,
                   browser, auditLog>>

\* the values of PipelineStage
PipelineStages ==
    {"idle", "query_parsing", "tool_selection", "executing", "summarizing",
     "complete", "failed"}

\* progress values a caller passes: the ends of 0..100, one inside and one
\* beyond each end
ProgressValues == {0 - 1, 0, 50, 100, 101}

\* an updateStage that writes into the context it was given
updateStageInPlace(context, stage, progress, now) ==
    LET updated == [context EXCEPT !.stage = stage, !.progress = progress,
                       !.endTime = IF stage = "complete" \/ stage = "failed"
                                   THEN Time(now) ELSE NoTime]
    IN  [argument |-> updated, result |-> updated]

\* updateStage(context, stage, progress): the argument as the call leaves it
\* and the object it returns
updateStage(context, stage, progress, now) ==
    [argument |-> context,
     result |-> [context EXCEPT !.stage = stage, !.progress = progress,
                    !.endTime = IF stage = "complete" \/ stage = "failed"
                                THEN Time(now) ELSE NoTime]]

\* a call of updateStage on one of the contexts the caller holds
UpdateStage ==
    /\ pipeline.pc = "created"
    /\ Len(pipeline.objects) <= MaxUpdates
    /\ \E k \in 1..Len(pipeline.objects), stage \in PipelineStages,
          progress \in ProgressValues :
         LET r == updateStage(pipeline.objects[k], stage, progress, pipeline.now)
         IN  pipeline' = [pipeline EXCEPT
                            !.objects = Append([@ EXCEPT ![k] = r.argument], r.result),
                            !.from = k, !.now = @ + 1]
    /\ UNCHANGED <<enabled, customTools, tasks, loop, approvals, streams,
                   started, terminals, exec, chain,
                   registry, sandbox, planReq,
                   browser, auditLog>>

\* decomposeQuery(query, intent) called with an intent of the caller's
DecomposeCall ==
    /\ pipeline.pc = "idle"
    /\ \E intent \in QueryIntents :
          pipeline' = [pipeline EXCEPT !.pc = "decomposed", !.intent = intent,
                          !.decomposed = decomposeQuery(pipeline.query, intent)]
    /\ UNCHANGED <<enabled, customTools, tasks, loop, approvals, streams,
                   started, terminals, exec, chain,
                   registry, sandbox, planReq,
                   browser, auditLog>>

\* ---------------------------------------------------------- specifications
\* tools the planner puts into the tasks of the plan
PlanTools == {"slack", "browser", "terminal", "nosuch", ""}

\* a task as the planner returns it
NewTask(tool) ==
    [id |-> 0, description |-> <<"d">>, tool |-> tool, payload |-> Payload(PlanUrl),
     confidence |-> 1, status |-> "pending", result |-> <<>>, error |-> <<>>,
     logs |-> <<>>]

\* the tasks of generatePlan: the id of a task ends with its place in the plan
generatePlan(tools) == [t \in Tasks |-> [NewTask(tools[t]) EXCEPT !.id = t]]

\* a plan has arrived from /api/plan; default environment, no custom tools
Init ==
    /\ enabled = DefaultEnabled
    /\ customTools = {}
    /\ tasks \in {generatePlan(tools) : tools \in [Tasks -> PlanTools]}
    /\ loop = [pc |-> "init", i |-> 1]
    /\ approvals = 0
    /\ browser = NoBrowser
    /\ auditLog = NoAuditLog
    /\ streams = [s \in StreamIds |-> NoStream]
    /\ started = 0
    /\ registry = NoRegistry
    /\ sandbox = NoSandbox
    /\ planReq = NoPlanRequest
    /\ terminals = 0
    /\ chain = NoChain
    /\ pipeline = NoPipeline
    /\ exec = NoExec

ServerStep(s) ==
    \/ ServerParse(s)
    \/ ServerDispatch(s)
    \/ SummarizerOpen(s)
    \/ SummarizerChunk(s)
    \/ SummarizerFail(s)
    \/ SummarizerEnd(s)

Next ==
    \/ HandleSend
    \/ LoopContinue
    \/ LoopDelayElapsed
    \/ \E t \in Tasks : handleApproveTask(t)
    \/ \E s \in Tasks \X {"loop", "approve"} : ServerStep(s)

Spec == Init /\ [][Next]_vars

\* one request sent straight to the server, under any registry
InitServer ==
    /\ enabled \in Environments
    /\ customTools \in CustomConfigs
    /\ tasks = generatePlan([t \in Tasks |-> "slack"])
    /\ loop = [pc |-> "off", i |-> 1]
    /\ approvals = 0
    /\ browser = NoBrowser
    /\ auditLog = NoAuditLog
    /\ started = 0
    /\ registry = NoRegistry
    /\ sandbox = NoSandbox
    /\ terminals = 0
    /\ chain = NoChain
    /\ pipeline = NoPipeline
    /\ \E tool \in ToolNames, u \in Urls :
         \/ /\ exec = NoExec
            /\ planReq = NoPlanRequest
            /\ \E hasId \in BOOLEAN, payloadStr \in {"json", "badjson", ""} :
                 streams = [s \in StreamIds |->
                    IF s = <<0, "direct">>
                    THEN [NoStream EXCEPT !.pc = "request",
                             !.req = Request(hasId, tool, payloadStr, Payload(u))]
                    ELSE NoStream]
         \/ /\ streams = [s \in StreamIds |-> NoStream]
            /\ planReq = NoPlanRequest
            /\ \E valid \in BOOLEAN :
                 exec = [NoExec EXCEPT !.pc = "request", !.valid = valid,
                            !.tool = tool, !.payload = Payload(u)]
         \/ /\ streams = [s \in StreamIds |-> NoStream]
            /\ exec = NoExec
            /\ \E valid \in BOOLEAN, key \in BOOLEAN :
                 planReq = [NoPlanRequest EXCEPT !.pc = "request", !.valid = valid,
                               !.key = key]

NextServer ==
    \/ ServerStep(<<0, "direct">>)
    \/ ExecValidate
    \/ ExecDispatch
    \/ ExecSummarize
    \/ PlanValidate
    \/ PlanGenerate

SpecServer == InitServer /\ [][NextServer]_vars

\* specification with the scheduling the runtime provides: a settled promise
\* resumes the loop, a timer fires, and every request that was sent is served
\* to its end (each stream delivers its terminal event)
Fairness ==
    /\ WF_vars(HandleSend)
    /\ WF_vars(LoopContinue)
    /\ WF_vars(LoopDelayElapsed)
    /\ \A s \in Tasks \X {"loop", "approve"} : WF_vars(ServerStep(s))

\* plans checked under fairness: a tool whose task succeeds or fails in the
\* adapter or in the summary, a tool that dispatch refuses, and a missing name
FairTools == {"slack", "terminal", ""}

InitFair ==
    /\ enabled = DefaultEnabled
    /\ customTools = {}
    /\ tasks \in {generatePlan(tools) : tools \in [Tasks -> FairTools]}
    /\ loop = [pc |-> "init", i |-> 1]
    /\ approvals = 0
    /\ browser = NoBrowser
    /\ auditLog = NoAuditLog
    /\ streams = [s \in StreamIds |-> NoStream]
    /\ started = 0
    /\ registry = NoRegistry
    /\ sandbox = NoSandbox
    /\ planReq = NoPlanRequest
    /\ terminals = 0
    /\ chain = NoChain
    /\ pipeline = NoPipeline
    /\ exec = NoExec

FairSpec == InitFair /\ [][Next]_vars /\ Fairness

\* the plan "search for X and save it to a file": a search task followed by
\* filesystem tasks
InitRoundTrip ==
    /\ enabled = DefaultEnabled
    /\ customTools = {}
    /\ tasks = generatePlan([t \in Tasks |-> IF t = 1 THEN "search" ELSE "filesystem"])
    /\ loop = [pc |-> "init", i |-> 1]
    /\ approvals = 0
    /\ browser = NoBrowser
    /\ auditLog = NoAuditLog
    /\ streams = [s \in StreamIds |-> NoStream]
    /\ started = 0
    /\ registry = NoRegistry
    /\ sandbox = NoSandbox
    /\ planReq = NoPlanRequest
    /\ terminals = 0
    /\ chain = NoChain
    /\ pipeline = NoPipeline
    /\ exec = NoExec

SpecRoundTrip == InitRoundTrip /\ [][Next]_vars

\* the same plan on connections that may be lost
NextDrop ==
    \/ Next
    \/ \E s \in Tasks \X {"loop", "approve"} : ConnectionDrop(s)

SpecDrop == InitRoundTrip /\ [][NextDrop]_vars

\* one call of dispatchToolWithChaining, under the default environment
ChainTools == {"search", "browser", "slack", "terminal", "nosuch"}
NextTools == {"", "filesystem", "slack", "github"}
PrevResults == {UNDEFINED, <<>>, <<"p">>}
ChainPayloads ==
    { Payload(PlanUrl),
      [url |-> PlanUrl, query |-> <<"q">>, previousContext |-> <<"own">>] }

InitChain ==
    /\ enabled = DefaultEnabled
    /\ customTools = {}
    /\ tasks = generatePlan([t \in Tasks |-> "slack"])
    /\ loop = [pc |-> "off", i |-> 1]
    /\ approvals = 0
    /\ browser = NoBrowser
    /\ auditLog = NoAuditLog
    /\ streams = [s \in StreamIds |-> NoStream]
    /\ started = 0
    /\ registry = NoRegistry
    /\ sandbox = NoSandbox
    /\ planReq = NoPlanRequest
    /\ terminals = 0
    /\ exec = NoExec
    /\ pipeline = NoPipeline
    /\ \E tool \in ChainTools, payload \in ChainPayloads,
          previousResult \in PrevResults, nextTool \in NextTools :
         chain = [NoChain EXCEPT !.pc = "called", !.tool = tool, !.payload = payload,
                     !.previousResult = previousResult, !.nextTool = nextTool]

NextChain ==
    \/ ChainCall
    \/ ChainReturn

SpecChain == InitChain /\ [][NextChain]_vars

\* one call of createPipelineContext or of decomposeQuery on a query
InitIntent ==
    /\ enabled = DefaultEnabled
    /\ customTools = {}
    /\ tasks = generatePlan([t \in Tasks |-> "slack"])
    /\ loop = [pc |-> "off", i |-> 1]
    /\ approvals = 0
    /\ browser = NoBrowser
    /\ auditLog = NoAuditLog
    /\ streams = [s \in StreamIds |-> NoStream]
    /\ started = 0
    /\ registry = NoRegistry
    /\ sandbox = NoSandbox
    /\ planReq = NoPlanRequest
    /\ terminals = 0
    /\ exec = NoExec
    /\ chain = NoChain
    /\ \E query \in Queries : pipeline = [NoPipeline EXCEPT !.query = query]

NextIntent ==
    \/ createPipelineContext
    \/ DecomposeCall

SpecIntent == InitIntent /\ [][NextIntent]_vars

\* one call of executeBrowser with any URL, under any setting of
\* BROWSER_ALLOW_UNSAFE_URLS and with or without the domain in the allowlist
InitBrowser ==
    /\ enabled = DefaultEnabled
    /\ customTools = {}
    /\ tasks = generatePlan([t \in Tasks |-> "browser"])
    /\ loop = [pc |-> "off", i |-> 1]
    /\ approvals = 0
    /\ auditLog = NoAuditLog
    /\ streams = [s \in StreamIds |-> NoStream]
    /\ started = 0
    /\ registry = NoRegistry
    /\ sandbox = NoSandbox
    /\ planReq = NoPlanRequest
    /\ terminals = 0
    /\ exec = NoExec
    /\ chain = NoChain
    /\ pipeline = NoPipeline
    /\ \E parses \in BOOLEAN, hostname \in Hostnames, skipValidation \in BOOLEAN,
          allowUnsafe \in BOOLEAN, domains \in {<<>>, <<AllowedDomain>>} :
         /\ (~parses => hostname = <<"x">>)
         /\ browser = [NoBrowser EXCEPT !.pc = "called",
                          !.url = [parses |-> parses, hostname |-> hostname],
                          !.skipValidation = skipValidation,
                          !.allowUnsafe = allowUnsafe, !.domains = domains]

SpecBrowser == InitBrowser /\ [][ExecuteBrowser]_vars

\* the audit module of either file, with AUDIT_ENABLED set or not, and no
\* log file yet
InitAudit ==
    /\ enabled = DefaultEnabled
    /\ customTools = {}
    /\ tasks = generatePlan([t \in Tasks |-> "slack"])
    /\ loop = [pc |-> "off", i |-> 1]
    /\ approvals = 0
    /\ browser = NoBrowser
    /\ streams = [s \in StreamIds |-> NoStream]
    /\ started = 0
    /\ registry = NoRegistry
    /\ sandbox = NoSandbox
    /\ planReq = NoPlanRequest
    /\ terminals = 0
    /\ exec = NoExec
    /\ chain = NoChain
    /\ pipeline = NoPipeline
    /\ \E variant \in {"audit.ts", "part_010"}, flag \in BOOLEAN :
         auditLog = [NoAuditLog EXCEPT !.variant = variant, !.flag = flag]

NextAudit ==
    \/ LogCall
    \/ GetAuditLog

SpecAudit == InitAudit /\ [][NextAudit]_vars

\* queries of the requests whose stage is followed
PipelineQueries == {q \in Queries : Len(q) <= 3}

\* createPipelineContext on a query, then calls of updateStage
InitPipeline ==
    /\ enabled = DefaultEnabled
    /\ customTools = {}
    /\ tasks = generatePlan([t \in Tasks |-> "slack"])
    /\ loop = [pc |-> "off", i |-> 1]
    /\ approvals = 0
    /\ browser = NoBrowser
    /\ auditLog = NoAuditLog
    /\ streams = [s \in StreamIds |-> NoStream]
    /\ started = 0
    /\ registry = NoRegistry
    /\ sandbox = NoSandbox
    /\ planReq = NoPlanRequest
    /\ terminals = 0
    /\ exec = NoExec
    /\ chain = NoChain
    /\ \E query \in PipelineQueries : pipeline = [NoPipeline EXCEPT !.query = query]

NextPipeline ==
    \/ createPipelineContext
    \/ UpdateStage

SpecPipeline == InitPipeline /\ [][NextPipeline]_vars

\* calls of getAvailableTools under any setting of the flags and any
\* custom_tools.json of up to MaxCustom entries
InitTools ==
    /\ enabled \in AllEnvironments
    /\ \E custom \in SeqsUpTo({"mytool", "browser"}, MaxCustom) :
          /\ registry = [NoRegistry EXCEPT !.custom = custom]
          /\ customTools = {custom[k] : k \in 1..Len(custom)}
    /\ tasks = generatePlan([t \in Tasks |-> "slack"])
    /\ loop = [pc |-> "off", i |-> 1]
    /\ approvals = 0
    /\ browser = NoBrowser
    /\ auditLog = NoAuditLog
    /\ streams = [s \in StreamIds |-> NoStream]
    /\ started = 0
    /\ terminals = 0
    /\ exec = NoExec
    /\ chain = NoChain
    /\ pipeline = NoPipeline
    /\ sandbox = NoSandbox
    /\ planReq = NoPlanRequest

SpecTools == InitTools /\ [][GetAvailableTools]_vars

\* the list of getAvailableTools and a call of dispatchTool, under one
\* registry
NextRegistry ==
    \/ GetAvailableTools
    \/ DispatchUnderRegistry

SpecRegistry == InitTools /\ [][NextRegistry]_vars

\* one call of the filesystem tool with any action and any path
InitSandbox ==
    /\ enabled = DefaultEnabled
    /\ customTools = {}
    /\ tasks = generatePlan([t \in Tasks |-> "filesystem"])
    /\ loop = [pc |-> "off", i |-> 1]
    /\ approvals = 0
    /\ browser = NoBrowser
    /\ auditLog = NoAuditLog
    /\ streams = [s \in StreamIds |-> NoStream]
    /\ started = 0
    /\ terminals = 0
    /\ exec = NoExec
    /\ chain = NoChain
    /\ pipeline = NoPipeline
    /\ registry = NoRegistry
    /\ planReq = NoPlanRequest
    /\ \E platform \in {"posix", "win32"}, action \in FilesystemActions,
          path \in Paths, content \in BOOLEAN :
         /\ (action # "write" => content = FALSE)
         /\ sandbox = [NoSandbox EXCEPT !.pc = "called", !.platform = platform,
                          !.action = action, !.path = path, !.content = content]

SpecSandbox == InitSandbox /\ [][ExecuteFilesystem]_vars

\* ------------------------------------------------------------------ helpers
PlanStreams == Tasks \X {"loop", "approve"}

Types(events) == [k \in 1..Len(events) |-> events[k].type]

\* the stream of s has been opened
Opened(s) == streams[s].pc # "idle"

\* the terminal event of s has reached the client
Finished(s) == streams[s].pc = "closed"

\* every request of the plan has been served to its end
Quiescent ==
    /\ loop.pc = "done"
    /\ \A s \in PlanStreams : streams[s].pc \in {"idle", "closed"}

\* ------------------------------------------------------------------- claims
\* C1: in every reachable state at most one task of the plan has status
\* executing, whatever the interleaving of the driving loop with the
\* 'Approve & Execute' action.
C1_AtMostOneExecuting ==
    Cardinality({t \in Tasks : tasks[t].status = "executing"}) <= 1

\* C2: tasks are started in list order and the terminal event of task i is
\* delivered before any event of task i+1: whenever a stream of task i+1 has
\* been opened, a stream of task i has delivered its done or error.
C2_OrderedWithoutOverlap ==
    \A t \in Tasks :
        (t > 1 /\ \E o \in {"loop", "approve"} : Opened(<<t, o>>))
            => \E o \in {"loop", "approve"} : Finished(<<t - 1, o>>)

\* C5: every change of a task's status is pending->executing,
\* executing->success or executing->failed; success and failed are never
\* left, executing is entered once, approved is never taken.
C5_Transitions ==
    {<<"pending", "executing">>, <<"executing", "success">>, <<"executing", "failed">>}

C5_StatusMachine ==
    [][\A t \in Tasks :
          /\ tasks'[t].status # tasks[t].status
                => <<tasks[t].status, tasks'[t].status>> \in C5_Transitions
          /\ (\E o \in {"loop", "approve"} :
                  streams[<<t, o>>].pc = "idle" /\ streams'[<<t, o>>].pc = "request")
                => tasks[t].status = "pending"]_vars

\* C6: running a plan of N tasks with well-formed parameters emits exactly N
\* start events and N terminal events, and task k ends failed exactly when
\* the dispatch of its tool raised an error, success otherwise.
C6_WellFormed == \A t \in Tasks : tasks[t].tool # ""

C6_PlanOutcome ==
    (Quiescent /\ C6_WellFormed)
        => /\ started = NumTasks
           /\ terminals = NumTasks
           /\ \A t \in Tasks :
                 /\ tasks[t].status = "failed" <=> streams[<<t, "loop">>].threw = "yes"
                 /\ tasks[t].status = "success" <=> streams[<<t, "loop">>].threw = "no"

\* C3: the events of a stream-execute request are start, then logs, then
\* either one tool_result, summary chunks and done, or one error without a
\* tool_result; nothing follows done/error.
Direct == <<0, "direct">>

C3_Complete(events) ==
    LET n == Len(events)
    IN  /\ n >= 2
        /\ events[1].type = "start"
        /\ \/ /\ events[n].type = "error"
              /\ \A k \in 2..(n - 1) : events[k].type = "log"
           \/ /\ events[n].type = "done"
              /\ \E j \in 2..(n - 1) :
                    /\ events[j].type = "tool_result"
                    /\ \A k \in 2..(j - 1) : events[k].type = "log"
                    /\ \A k \in (j + 1)..(n - 1) : events[k].type = "summary_chunk"

C3_Prefix(events) ==
    LET n == Len(events)
    IN  \/ n = 0
        \/ /\ events[1].type = "start"
           /\ \/ \A k \in 2..n : events[k].type = "log"
              \/ \E j \in 2..n :
                    /\ events[j].type = "tool_result"
                    /\ \A k \in 2..(j - 1) : events[k].type = "log"
                    /\ \A k \in (j + 1)..n : events[k].type = "summary_chunk"

C3_EventShape ==
    \A s \in StreamIds :
        IF streams[s].pc \in {"ended", "closed"}
        THEN C3_Complete(streams[s].emitted)
        ELSE C3_Prefix(streams[s].emitted)

\* C3 as amended: the shape holds for every request that passes the
\* parameter checks; a request that fails them emits one error and no start.
C3_Parsed(req) == req.taskId /\ req.tool # "" /\ req.payloadStr = "json"

C3_EventShapeParsed ==
    \A s \in StreamIds :
        IF streams[s].pc \in {"ended", "closed"}
        THEN IF C3_Parsed(streams[s].req)
             THEN C3_Complete(streams[s].emitted)
             ELSE Types(streams[s].emitted) = <<"error">>
        ELSE C3_Prefix(streams[s].emitted)

C3_Witness ==
    /\ streams[Direct].pc = "ended"
    /\ C3_Parsed(streams[Direct].req)
    /\ Types(streams[Direct].emitted)
          = <<"start", "log", "tool_result", "summary_chunk", "done">>

\* C7: when dispatch succeeded and the summarizer fails, the stream carries
\* the raw result as a summary_chunk followed by done and no error, and
\* /api/execute answers success with the raw result.
C7_SummarizerFailureTolerated ==
    /\ \A s \in StreamIds :
          (streams[s].pc = "ended" /\ streams[s].summarizerFailed)
             => LET ev == streams[s].emitted
                    n == Len(ev)
                IN  /\ n >= 2
                    /\ ev[n - 1] = Event("summary_chunk", streams[s].rawResult)
                    /\ ev[n] = Event("done", streams[s].rawResult)
                    /\ \A k \in 1..n : ev[k].type # "error"
    /\ (exec.pc \in {"responded", "hung"} /\ exec.summarizerFailed)
          => /\ exec.pc = "responded"
             /\ exec.response = Respond(200, TRUE, exec.rawResult, <<>>)

\* C8: the text of done equals the concatenation, in order, of the contents
\* of the summary_chunk events of the same request.
RECURSIVE C8_Chunks(_)
C8_Chunks(events) ==
    IF events = <<>> THEN <<>>
    ELSE (IF Head(events).type = "summary_chunk" THEN Head(events).data ELSE <<>>)
            \o C8_Chunks(Tail(events))

C8_DoneCarriesChunks ==
    \A s \in StreamIds :
        \A k \in 1..Len(streams[s].emitted) :
            streams[s].emitted[k].type = "done"
                => streams[s].emitted[k].data = C8_Chunks(streams[s].emitted)

\* C4: failure isolation. Provided every stream delivers its terminal event,
\* every task of the plan is eventually started by the loop and eventually
\* reaches success or failed, whatever the outcomes of the tasks before it.
C4_FailureIsolation ==
    \A t \in Tasks :
        /\ <>Opened(<<t, "loop">>)
        /\ <>(Finished(<<t, "loop">>) /\ tasks[t].status \in {"success", "failed"})

C4_Witness ==
    \E t \in Tasks :
        /\ t < NumTasks
        /\ streams[<<t, "loop">>].promise = "rejected"
        /\ tasks[t].status = "failed"
        /\ Finished(<<t + 1, "loop">>)
        /\ tasks[t + 1].status = "success"

\* C9: a tool name that is neither an enabled built-in nor a custom tool
\* makes dispatchTool fail with the 'not enabled or does not exist' error
\* and no adapter call; the stream is start then one error, the task goes to
\* failed with that message, and the loop goes on with the next task.
C9_Unresolvable(tool) == tool \notin enabled /\ tool \notin customTools /\ tool # ""

C9_Stream(s) ==
    (C9_Unresolvable(streams[s].req.tool) /\ streams[s].pc \notin {"idle", "request", "dispatch"})
        => /\ streams[s].pc = "closed"
           /\ Types(streams[s].emitted) = <<"start", "error">>
           /\ streams[s].emitted[2].data = NotEnabledError(streams[s].req.tool)
           /\ streams[s].calls = <<>>
           /\ streams[s].promise = "rejected"

C9_Step ==
    /\ \A s \in PlanStreams :
          (C9_Unresolvable(streams[s].req.tool) /\ streams[s].pc = "dispatch"
                /\ streams'[s].pc # "dispatch")
             => /\ tasks'[s[1]].status = "failed"
                /\ tasks'[s[1]].error = NotEnabledError(streams[s].req.tool)
    /\ (/\ loop.pc = "await" /\ loop.i < NumTasks /\ loop' # loop
        /\ C9_Unresolvable(tasks[loop.i].tool))
          => /\ loop' = [pc |-> "await", i |-> loop.i + 1]
             /\ streams'[<<loop.i + 1, "loop">>].pc = "request"

C9_Continues ==
    (/\ loop.pc = "await"
     /\ C9_Unresolvable(tasks[loop.i].tool)
     /\ Finished(<<loop.i, "loop">>))
        => ENABLED LoopContinue

C9_UnresolvedToolFails ==
    /\ [](\A s \in PlanStreams : C9_Stream(s))
    /\ []C9_Continues
    /\ [][C9_Step]_vars

C9_Witness ==
    \E t \in Tasks :
        /\ t < NumTasks
        /\ tasks[t].tool = "terminal"
        /\ tasks[t].status = "failed"
        /\ tasks[t].error = NotEnabledError("terminal")
        /\ Types(streams[<<t, "loop">>].emitted) = <<"start", "error">>
        /\ Opened(<<t + 1, "loop">>)

\* C10: when dispatchTool is called with tool browser and the browser
\* adapter fails, the search adapter is called exactly once, with the query
\* derived from the URL, limit 5 and deepFetch; the result is the search
\* result behind the fallback marker, and dispatchTool fails only if that
\* search call fails.
C10_Fallback(payload, calls, threw, text) ==
    (calls # <<>> /\ calls[1].adapter = "browser" /\ calls[1].threw)
        => /\ Len(calls) = 2
           /\ calls[2].adapter = "search"
           /\ calls[2].query = deriveQuery(payload.url)
           /\ calls[2].limit = 5
           /\ calls[2].deepFetch
           /\ (threw = "yes") <=> calls[2].threw
           /\ ~calls[2].threw => text = FallbackMarker \o AdapterOutput("search")

C10_BrowserFallback ==
    /\ streams[Direct].threw # "none"
          => C10_Fallback(streams[Direct].req.payload, streams[Direct].calls,
                          streams[Direct].threw, streams[Direct].rawResult)
    /\ exec.threw # "none"
          => C10_Fallback(exec.payload, exec.calls, exec.threw, exec.rawResult)

C10_Witness ==
    /\ streams[Direct].req.tool = "browser"
    /\ Len(streams[Direct].calls) = 2
    /\ streams[Direct].calls[1].threw
    /\ streams[Direct].calls[2].query = <<"h", " ", " ", "a", " ", "b">>
    /\ streams[Direct].threw = "no"
    /\ streams[Direct].emitted[Len(streams[Direct].emitted)]
          = Event("tool_result", FallbackMarker \o AdapterOutput("search"))

\* C11: the browser->search fallback is the only automatic recovery. Within
\* one dispatchTool call no adapter is invoked twice, a second adapter is
\* invoked only as the search fallback of a failed browser call, the failure
\* of any other tool reaches the caller after at most that one call, and no
\* request is opened for a task that has already failed.
C11_Calls(tool, calls, threw) ==
    /\ Len(calls) <= 2
    /\ \A i, j \in 1..Len(calls) : i # j => calls[i].adapter # calls[j].adapter
    /\ Len(calls) = 2
          => /\ calls[1].adapter = "browser"
             /\ calls[1].threw
             /\ calls[2].adapter = "search"
    /\ (threw = "yes" /\ tool # "browser")
          => /\ Len(calls) <= 1
             /\ \A k \in 1..Len(calls) : calls[k].threw

C11_Dispatch ==
    /\ \A s \in StreamIds : C11_Calls(streams[s].req.tool, streams[s].calls, streams[s].threw)
    /\ C11_Calls(exec.tool, exec.calls, exec.threw)

C11_NoRerun ==
    \A s \in PlanStreams :
        (streams[s].pc = "idle" /\ streams'[s].pc = "request")
            => tasks[s[1]].status # "failed"

C11_OnlyFallbackRecovers == []C11_Dispatch /\ [][C11_NoRerun]_vars

\* C12: dispatchToolWithChaining never throws. Whatever the tool, payload,
\* previousResult and nextTool, the call returns, and a failed dispatch is
\* returned as success=false with the error message as result and without
\* fallbackUsed and transformedForNext.
C12_NeverThrows ==
    /\ chain.pc # "thrown"
    /\ (chain.pc = "returned" /\ chain.settled.threw)
          => chain.out = ChainedToolResult(FALSE, chain.tool, chain.settled.text,
                                           UNDEFINED, UNDEFINED)

C12_Witness ==
    /\ chain.pc = "returned"
    /\ chain.tool = "browser"
    /\ Len(chain.settled.calls) = 2
    /\ chain.settled.threw
    /\ chain.nextTool = "filesystem"
    /\ chain.out.result = AdapterError("search")

\* C13: chaining from search or browser into filesystem gives a
\* transformedForNext without the bold marker, of at most the maximal length,
\* equal to the raw result with the listed emoji and the bold markers removed
\* and then truncated; none of the listed emoji is left in it.
C13_Case ==
    /\ chain.pc = "returned"
    /\ chain.out.success
    /\ chain.tool \in {"search", "browser"}
    /\ chain.nextTool = "filesystem"
    /\ chain.out.transformedForNext # UNDEFINED

\* length of the longest listed emoji spelled at position i, 0 if none is
C13_ListedAt(s, i) ==
    LET ks == {k \in 1..Len(EmojiPatterns) : MatchAt(s, i, EmojiPatterns[k])}
    IN  IF ks = {} THEN 0
        ELSE Len(EmojiPatterns[CHOOSE k \in ks :
                    \A j \in ks : Len(EmojiPatterns[j]) <= Len(EmojiPatterns[k])])

RECURSIVE C13_WithoutListed(_, _)
C13_WithoutListed(s, i) ==
    IF i > Len(s) THEN <<>>
    ELSE IF C13_ListedAt(s, i) > 0 THEN C13_WithoutListed(s, i + C13_ListedAt(s, i))
    ELSE <<s[i]>> \o C13_WithoutListed(s, i + 1)

C13_FilesystemTransform ==
    C13_Case =>
        LET raw == chain.out.result
            out == chain.out.transformedForNext
        IN  /\ \A i \in 1..Len(out) : ~MatchAt(out, i, <<"*", "*">>)
            /\ Len(out) <= TransformLimit
            /\ out = Substring0(ReplaceBold(C13_WithoutListed(raw, 1), 1), TransformLimit)
            /\ \A i \in 1..Len(out) : out[i] # "link-emoji"

\* C14: chaining from search or browser into slack gives the first (at most
\* SlackLines) non-blank lines of the raw result, in their order and joined
\* by newlines; for every other pair of tools transformedForNext is the raw
\* result.
C14_HasText(line) == \E k \in 1..Len(line) : line[k] # " "

C14_NonBlankLines(text) ==
    IF text = <<>> THEN <<>> ELSE SelectSeq(SplitLines(text), C14_HasText)

C14_SlackTransform ==
    (chain.pc = "returned" /\ chain.out.success /\ chain.out.transformedForNext # UNDEFINED)
        => LET raw == chain.out.result
               out == chain.out.transformedForNext
               outLines == IF out = <<>> THEN <<>> ELSE SplitLines(out)
               want == C14_NonBlankLines(raw)
           IN  IF chain.tool \in {"search", "browser"} /\ chain.nextTool = "slack"
               THEN /\ Len(outLines) <= SlackLines
                    /\ \A k \in 1..Len(outLines) : C14_HasText(outLines[k])
                    /\ outLines = SubSeq(want, 1,
                                    IF Len(want) < SlackLines THEN Len(want) ELSE SlackLines)
               ELSE IF chain.tool \in {"search", "browser"} /\ chain.nextTool = "filesystem"
               THEN TRUE
               ELSE out = raw

C14_Witness ==
    /\ chain.pc = "returned"
    /\ chain.tool = "search"
    /\ chain.nextTool = "slack"
    /\ chain.out.result = <<"b", "\n", " ", "\n", "a">>
    /\ chain.out.transformedForNext = <<"b", "\n", "a">>

\* C15: whenever previousResult is present, the payload handed to dispatchTool
\* is the caller's payload with previousResult under previousContext and every
\* other key unchanged; when it is absent the payload is handed on unchanged;
\* the caller's payload is never changed.
C15_Handed ==
    chain.pc \in {"settled", "returned"}
        => IF chain.previousResult # UNDEFINED
           THEN /\ DOMAIN chain.handed = DOMAIN chain.payload \cup {"previousContext"}
                /\ chain.handed.previousContext = chain.previousResult
                /\ \A k \in DOMAIN chain.payload \ {"previousContext"} :
                      chain.handed[k] = chain.payload[k]
           ELSE chain.handed = chain.payload

C15_PayloadEnriched ==
    []C15_Handed /\ [][chain'.payload = chain.payload]_vars

\* C16: round trip through the pipeline. For the plan [A (search),
\* B (filesystem)], once B has ended with done, B has status success and its
\* result is the search->filesystem transform of the output of A.
C16_OutputOfA ==
    LET ev == streams[<<1, "loop">>].emitted
        ks == {k \in 1..Len(ev) : ev[k].type = "tool_result"}
    IN  IF ks = {} THEN UNDEFINED ELSE ev[CHOOSE k \in ks : TRUE].data

C16_RoundTrip ==
    (/\ tasks[1].tool = "search"
     /\ tasks[2].tool = "filesystem"
     /\ C16_OutputOfA # UNDEFINED
     /\ streams[<<2, "loop">>].promise = "resolved")
        => /\ tasks[2].status = "success"
           /\ tasks[2].result = transformResultForNext(C16_OutputOfA, "search", "filesystem")

\* C17: tasks are independent. The tool and the payload of every request made
\* for task k are those of the plan, which no step changes: they are the
\* same in every run of the plan, whatever the earlier tasks returned.
C17_AsPlanned ==
    \A s \in PlanStreams :
        Opened(s) => /\ streams[s].req.tool = tasks[s[1]].tool
                     /\ streams[s].req.payload = tasks[s[1]].payload
                     /\ tasks[s[1]].payload = Payload(PlanUrl)

C17_PlanKept ==
    \A t \in Tasks : /\ tasks'[t].tool = tasks[t].tool
                     /\ tasks'[t].payload = tasks[t].payload

C17_Independent == []C17_AsPlanned /\ [][C17_PlanKept]_vars

C17_Witness ==
    /\ tasks[1].status = "success"
    /\ tasks[1].result # <<>>
    /\ streams[<<2, "loop">>].threw = "no"
    /\ streams[<<2, "loop">>].req.payload = Payload(PlanUrl)

\* C18: detectIntent returns the category of the first rule, in the order
\* comparison, real_time, calculation, action, factual, research, creative,
\* that the lower-cased query matches, and general exactly when none does; a
\* query containing 'compare' or ' vs ' is classified comparison.
C18_Order ==
    <<"comparison", "real_time", "calculation", "action", "factual", "research",
      "creative">>

C18_Matches(q, c) ==
    CASE c = "comparison"  -> includesAny(q, ComparisonWords)
      [] c = "real_time"   -> includesAny(q, RealTimeWords)
      [] c = "calculation" -> matchesArithmetic(q) \/ includesAny(q, CalculationWords)
      [] c = "action"      -> includesAny(q, ActionWords)
      [] c = "factual"     -> startsWithAny(q, FactualPrefixes) \/ includesAny(q, FactualWords)
      [] c = "research"    -> includesAny(q, ResearchWords) \/ Len(q) > ResearchLength
      [] c = "creative"    -> includesAny(q, CreativeWords)

C18_Created == pipeline.pc = "created"

C18_Lower == toLowerCase(pipeline.query)

C18_FirstRuleWins ==
    C18_Created =>
        LET hits == {k \in DOMAIN C18_Order : C18_Matches(C18_Lower, C18_Order[k])} IN
        /\ pipeline.intent \in QueryIntents
        /\ hits # {} =>
             pipeline.intent = C18_Order[CHOOSE k \in hits : \A h \in hits : k <= h]
        /\ (pipeline.intent = "general") <=> (hits = {})
        /\ (\/ includes(C18_Lower, <<"c", "o", "m", "p", "a", "r", "e">>)
            \/ includes(C18_Lower, <<" ", "v", "s", " ">>))
              => pipeline.intent = "comparison"

C18_Witness ==
    /\ C18_Created
    /\ startsWith(C18_Lower, <<"w", "h", "a", "t", " ", "i", "s">>)
    /\ includes(C18_Lower, <<" ", "v", "s", " ">>)
    /\ pipeline.intent = "comparison"

\* C19 as stated: every query that begins with 'what is' is classified factual.
C19_WhatIs == startsWith(C18_Lower, <<"w", "h", "a", "t", " ", "i", "s">>)

C19_WhatIsFactual == (C18_Created /\ C19_WhatIs) => pipeline.intent = "factual"

\* C19 as amended: a query that begins with 'what is' and matches none of
\* the comparison, real_time, calculation and action rules is classified
\* factual.
C19_WhatIsFactualUnlessEarlier ==
    (/\ C18_Created
     /\ C19_WhatIs
     /\ \A c \in {"comparison", "real_time", "calculation", "action"} :
           ~C18_Matches(C18_Lower, c))
        => pipeline.intent = "factual"

C19_Witness ==
    /\ C18_Created
    /\ C19_WhatIs
    /\ includes(C18_Lower, <<"e", "x", "p", "l", "a", "i", "n">>)
    /\ pipeline.intent = "factual"

\* C20 as stated: the first element is the original query; an intent other
\* than comparison and research gives only the original query; comparison and
\* research give the original query and sub-queries, 2 to 3 queries with it.
C20_Called == pipeline.pc \in {"created", "decomposed"}

C20_Expands ==
    C20_Called =>
        /\ Len(pipeline.decomposed) >= 1
        /\ pipeline.decomposed[1] = pipeline.query
        /\ pipeline.intent \notin {"comparison", "research"}
              => pipeline.decomposed = <<pipeline.query>>
        /\ pipeline.intent \in {"comparison", "research"}
              => Len(pipeline.decomposed) \in 2..3

\* where q holds a separator, in any case: its first and last character
C20_SeparatorsAt(q) ==
    LET lower == toLowerCase(q) IN
    {<<ak[1], ak[1] + Len(Separators[ak[2]]) - 1>> :
        ak \in {x \in (1..Len(q)) \X DOMAIN Separators :
                   startsWith(SubSeq(lower, x[1], Len(q)), Separators[x[2]])}}

\* the ways to read q as a subject, white space, a separator, white space
\* and a second subject: the end of the first subject and the start of the
\* second
C20_Readings(q) ==
    UNION { {pe \in (1..(ab[1] - 2)) \X ((ab[2] + 2)..Len(q)) :
                /\ \A k \in (pe[1] + 1)..(ab[1] - 1) : q[k] \in WhiteSpace
                /\ \A k \in (ab[2] + 1)..(pe[2] - 1) : q[k] \in WhiteSpace}
            : ab \in C20_SeparatorsAt(q) }

\* C20 as amended: the first element is the original query; a research
\* intent adds the query with each of the two fixed suffixes; a comparison
\* intent adds one sub-query per side when the query reads as two subjects
\* around vs, vs., versus, compared to or or, and nothing otherwise; every
\* other intent gives only the original query.
C20_ExpandsOnPattern ==
    C20_Called =>
        LET q == pipeline.query
            d == pipeline.decomposed
            rs == C20_Readings(q)
        IN  /\ Len(d) >= 1
            /\ d[1] = q
            /\ pipeline.intent \notin {"comparison", "research"} => d = <<q>>
            /\ pipeline.intent = "research"
                  => d = <<q, q \o RecentSuffix, q \o ExpertSuffix>>
            /\ (pipeline.intent = "comparison" /\ rs = {}) => d = <<q>>
            /\ (pipeline.intent = "comparison" /\ rs # {})
                  => /\ Len(d) = 3
                     /\ \E pe \in rs :
                          /\ \A o \in rs : pe[1] <= o[1]
                          /\ d[2] = Trim(SubSeq(q, 1, pe[1])) \o FeaturesSuffix
                          /\ d[3] = Trim(SubSeq(q, pe[2], Len(q))) \o FeaturesSuffix

C20_Witness ==
    /\ pipeline.pc = "created"
    /\ pipeline.intent = "comparison"
    /\ Len(pipeline.decomposed) = 3
    /\ pipeline.decomposed[2] # pipeline.decomposed[3]

\* C21: a malformed request is rejected before anything executes. A
\* stream-execute request without taskId, tool or payload, or with a payload
\* that is no JSON, gets exactly one error event, no start and no adapter
\* call; /api/execute and /api/plan answer 400 to a body that fails the
\* schema, before any dispatch and before the planner is called.
C21_Malformed(req) ==
    ~req.taskId \/ req.tool = "" \/ req.payloadStr \in {"", "badjson"}

C21_Rejected ==
    /\ \A s \in StreamIds :
         (streams[s].pc # "idle" /\ C21_Malformed(streams[s].req)) =>
            /\ streams[s].calls = <<>>
            /\ \A k \in 1..Len(streams[s].emitted) : streams[s].emitted[k].type = "error"
            /\ Len(streams[s].emitted) <= 1
            /\ streams[s].pc = "ended" => Len(streams[s].emitted) = 1
    /\ (exec.pc # "idle" /\ ~exec.valid) =>
            /\ exec.calls = <<>>
            /\ exec.threw = "none"
            /\ exec.pc = "responded" => exec.response.code = 400
    /\ (planReq.pc # "idle" /\ ~planReq.valid) =>
            /\ planReq.planner = 0
            /\ planReq.pc # "planning"
            /\ planReq.pc = "responded" => planReq.code = 400

C21_Witness ==
    /\ streams[<<0, "direct">>].pc = "ended"
    /\ streams[<<0, "direct">>].req.payloadStr = "badjson"
    /\ streams[<<0, "direct">>].req.taskId
    /\ streams[<<0, "direct">>].req.tool = "slack"
    /\ Len(streams[<<0, "direct">>].emitted) = 1

\* C22: cancellation. Once the connection of a stream-execute request has
\* dropped, the server emits no further event for the task and neither
\* starts nor continues the adapter call or the summarizer request; the cards
\* of the tasks that had completed stay as they were.
C22_Step ==
    /\ \A s \in PlanStreams :
         streams[s].dropped =>
            /\ streams'[s].emitted = streams[s].emitted
            /\ streams'[s].calls = streams[s].calls
            /\ streams'[s].pc \in {streams[s].pc, "closed"}
    /\ \A s \in PlanStreams :
         (~streams[s].dropped /\ streams'[s].dropped) =>
            \A t \in Tasks :
               tasks[t].status \in {"success", "failed"} => tasks'[t] = tasks[t]

C22_Cancellation == [][C22_Step]_vars

\* C23: every failed tool dispatch is reported to the caller (an error event
\* on the streaming path, an error response on the blocking path) and handed
\* to the audit collaborator as an error entry, on both paths. Stated for
\* the requests during which the audit collaborator raised no exception.
C23_Handed(audit, message) ==
    \E k \in 1..Len(audit) : audit[k] = AuditEntry("error", message)

C23_ErrorsAudited ==
    /\ \A s \in StreamIds :
         (/\ streams[s].pc \in {"ended", "closed"}
          /\ streams[s].threw = "yes"
          /\ ~streams[s].auditThrew) =>
            \E k \in 1..Len(streams[s].emitted) :
               /\ streams[s].emitted[k].type = "error"
               /\ C23_Handed(streams[s].audit, streams[s].emitted[k].data)
    /\ (exec.pc \in {"responded", "hung"} /\ exec.threw = "yes" /\ ~exec.auditThrew) =>
            /\ exec.pc = "responded"
            /\ exec.response.code = 500
            /\ C23_Handed(exec.audit, exec.response.error)

\* the blocking path does hand its errors to logError
C23_BlockingAudited ==
    (exec.pc \in {"responded", "hung"} /\ exec.threw = "yes") =>
        \E k \in 1..Len(exec.audit) : exec.audit[k].type = "error"

\* C24: audit notifications are fire-and-forget. Whether or not
\* logTaskExecuted or logError raises an exception, a request whose dispatch
\* and summary went well ends with done carrying the summary, its chunks
\* being the chunks of the summary, and the blocking request is answered:
\* 200 with the summary after a dispatch that returned, 500 with the
\* message after one that failed.
RECURSIVE C24_Chunks(_)
C24_Chunks(events) ==
    IF events = <<>> THEN <<>>
    ELSE (IF Head(events).type = "summary_chunk" THEN Head(events).data ELSE <<>>)
            \o C24_Chunks(Tail(events))

C24_FireAndForget ==
    /\ LET st == streams[<<0, "direct">>] IN
       (st.pc = "ended" /\ st.threw = "no" /\ ~st.summarizerFailed) =>
            /\ st.emitted[Len(st.emitted)] = Event("done", st.fullSummary)
            /\ C24_Chunks(st.emitted) = st.fullSummary
    /\ (exec.pc \in {"responded", "hung"} /\ exec.threw = "no") =>
            /\ exec.pc = "responded"
            /\ exec.response.code = 200
            /\ exec.response.result =
                 IF exec.summarizerFailed THEN exec.rawResult ELSE SummaryOf(exec.rawResult)
    /\ (exec.pc \in {"responded", "hung"} /\ exec.threw = "yes") =>
            /\ exec.pc = "responded"
            /\ exec.response.code = 500

\* without an exception of the audit collaborator the same statement holds
C24_WhenAuditWorks ==
    (~streams[<<0, "direct">>].auditThrew /\ ~exec.auditThrew) => C24_FireAndForget

\* C25: safe mode. No task leaves pending and no adapter is invoked for it
\* unless the user has approved that task after the plan was shown.
C25_Approved(t) == streams[<<t, "approve">>].pc # "idle"

C25_NoAutoExecution ==
    \A t \in Tasks :
        (\/ tasks[t].status # "pending"
         \/ \E o \in {"loop", "approve"} : streams[<<t, o>>].calls # <<>>)
            => C25_Approved(t)

\* C26: getAvailableTools returns exactly the built-in tools whose enabled
\* flag is true, in declaration order, followed by all custom tools in load
\* order; it changes nothing, so every call returns the same list.
C26_Declared(name) == CHOOSE k \in DOMAIN TOOL_DEFINITIONS : TOOL_DEFINITIONS[k] = name

C26_List(list) ==
    LET n == Cardinality(enabled \cap BuiltIn) IN
    /\ Len(list) = n + Len(registry.custom)
    /\ \A i \in 1..n : ~list[i].custom /\ list[i].name \in enabled \cap BuiltIn
    /\ \A i, j \in 1..n : i < j => C26_Declared(list[i].name) < C26_Declared(list[j].name)
    /\ \A i \in 1..Len(registry.custom) :
          list[n + i].custom /\ list[n + i].name = registry.custom[i]

C26_Returned ==
    \A k \in 1..Len(registry.returned) :
        /\ C26_List(registry.returned[k])
        /\ registry.returned[k] = registry.returned[1]

C26_NoSideEffect ==
    /\ enabled' = enabled
    /\ customTools' = customTools
    /\ registry'.custom = registry.custom
    /\ \A k \in 1..Len(registry.returned) : registry'.returned[k] = registry.returned[k]

C26_AvailableTools == []C26_Returned /\ [][C26_NoSideEffect]_vars

C26_Witness ==
    /\ Len(registry.returned) = 2
    /\ registry.custom = <<"browser", "mytool">>
    /\ "terminal" \in enabled
    /\ "browser" \notin enabled
    /\ "search" \in enabled

\* C27: sandboxed filesystem. Whatever path the filesystem tool is given,
\* '..' segments and a leading separator included, every path a read, write,
\* list, delete or mkdir touches is the sandbox directory or lies below it;
\* a call that ends with 'Access denied' has touched nothing but the
\* sandbox directory that ensureSandbox looks after.
C27_Inside(path, platform) ==
    LET root == SANDBOX_DIR(platform)
        seps == Separators_(platform)
    IN  /\ startsWith(path, root)
        /\ Len(path) > Len(root) => path[Len(root) + 1] \in seps
        /\ LET below == Segments(SubSeq(path, Len(root) + 1, Len(path)), seps, <<>>)
           IN  \A k \in 1..Len(below) : below[k] # <<".", ".">>

C27_Sandboxed ==
    sandbox.pc = "done" =>
        /\ \A p \in sandbox.touched : C27_Inside(p, sandbox.platform)
        /\ sandbox.error = AccessDenied => sandbox.touched \subseteq {SANDBOX_DIR(sandbox.platform)}

C27_Witness ==
    /\ sandbox.pc = "done"
    /\ sandbox.action = "write"
    /\ sandbox.path = <<".", ".", "/", "s", "s">>
    /\ sandbox.platform = "posix"
    /\ sandbox.error = <<>>
    /\ <<"/", "r", "/", "s", "/", "s", "s">> \in sandbox.touched

C27_DeniedWitness ==
    /\ sandbox.pc = "done"
    /\ sandbox.path = <<".", ".">>
    /\ sandbox.error = AccessDenied

\* C28: the plan is immutable in structure. Handling an event of the stream
\* of task T changes at most the status, result, error and logs of T: the
\* id, tool, payload, description and confidence of every task, every field
\* of every other task, and the number and order of the tasks stay as they
\* were.
C28_Structure(card) ==
    <<card.id, card.tool, card.payload, card.description, card.confidence>>

C28_EventStep(s) == streams'[s].emitted # streams[s].emitted

C28_Step ==
    /\ DOMAIN tasks' = DOMAIN tasks
    /\ \A t \in Tasks : C28_Structure(tasks'[t]) = C28_Structure(tasks[t])
    /\ \A s \in Tasks \X {"loop", "approve"} :
         C28_EventStep(s) => \A t \in Tasks \ {s[1]} : tasks'[t] = tasks[t]

C28_PlanImmutable == [][C28_Step]_vars

\* two tasks of the same tool, the first finished by its events while the
\* second has not been touched
C28_Witness ==
    /\ tasks[1].tool = tasks[2].tool
    /\ tasks[1].status = "success"
    /\ tasks[1].logs # <<>>
    /\ tasks[2] = [NewTask(tasks[1].tool) EXCEPT !.id = 2]

\* C29: in every reachable state the error of a task is populated only if
\* its status is failed: a pending, executing or successful task has no
\* error, and the error of a failed task is the message of an error event
\* one of its streams delivered.
C29_FailedBy(t) ==
    \E s \in {<<t, "loop">>, <<t, "approve">>} :
        \E k \in 1..Len(streams[s].emitted) :
            /\ streams[s].emitted[k].type = "error"
            /\ streams[s].emitted[k].data = tasks[t].error

C29_ErrorOnlyIfFailed ==
    \A t \in Tasks :
        /\ tasks[t].status # "failed" => tasks[t].error = <<>>
        /\ tasks[t].status = "failed" => C29_FailedBy(t)

\* the second half of C29 alone: a failed task carries the message of an
\* error event of one of its streams
C29_FailedCarriesMessage ==
    \A t \in Tasks : tasks[t].status = "failed" => C29_FailedBy(t)

\* C30: log relay is verbatim and ordered. The log events a stream has
\* emitted are, message for message and in the same order, the lines pushed
\* into onLog during its dispatch; and the logs of a task only grow, by the
\* messages of the log events received, appended at the end.
RECURSIVE C30_Messages(_)
C30_Messages(events) ==
    IF events = <<>> THEN <<>>
    ELSE (IF Head(events).type = "log" THEN <<Head(events).data>> ELSE <<>>)
            \o C30_Messages(Tail(events))

C30_Relayed == \A s \in StreamIds : C30_Messages(streams[s].emitted) = streams[s].pushed

C30_Received(t) ==
    LET grown == {s \in {<<t, "loop">>, <<t, "approve">>} :
                     Len(streams'[s].emitted) > Len(streams[s].emitted)}
    IN  IF grown = {} THEN <<>>
        ELSE LET s == CHOOSE x \in grown : TRUE
             IN  C30_Messages(SubSeq(streams'[s].emitted, Len(streams[s].emitted) + 1,
                                     Len(streams'[s].emitted)))

C30_Appended == \A t \in Tasks : tasks'[t].logs = tasks[t].logs \o C30_Received(t)

C30_LogRelay == []C30_Relayed /\ [][C30_Appended]_vars

\* the browser fallback has pushed its two lines and those of the search,
\* and the card shows them in that order
C30_Witness ==
    \E t \in Tasks :
        /\ Len(tasks[t].logs) >= 3
        /\ tasks[t].logs[1] # tasks[t].logs[2]
        /\ tasks[t].logs = streams[<<t, "loop">>].pushed

\* C31: between the starts of two consecutive tasks of a plan the cooldown
\* of 300 ms elapses, whether the earlier task ended in success or in
\* failure; no cooldown follows the last task.
C31_Step ==
    /\ loop'.i # loop.i => loop.pc = "delay"
    /\ loop'.pc = "delay" => loop'.i < NumTasks

C31_Cooldown == [][C31_Step]_vars

\* the part of C31 the loop keeps: a cooldown after every success but the
\* last, none after the last task
C31_CooldownAfterSuccess ==
    [][/\ (loop'.i # loop.i /\ streams[<<loop.i, "loop">>].promise = "resolved")
            => loop.pc = "delay"
       /\ loop'.pc = "delay" => loop'.i < NumTasks]_vars

\* C32: when a tool name matches both a built-in tool and a custom tool,
\* dispatchTool invokes the custom adapter and never the built-in one,
\* whether the built-in tool is enabled or disabled, and raises no conflict
\* error: the only failure it passes on is the one of the custom adapter.
C32_Shadowed(tool, calls, threw, text) ==
    (tool \in BuiltIn /\ tool \in customTools /\ threw # "none")
        => /\ Len(calls) = 1
           /\ calls[1].adapter = "custom"
           /\ threw = "yes" => (calls[1].threw /\ text = AdapterError("custom"))

C32_StreamError ==
    LET ev == streams[Direct].emitted
    IN  IF ev # <<>> /\ ev[Len(ev)].type = "error" THEN ev[Len(ev)].data ELSE <<>>

C32_CustomShadows ==
    /\ C32_Shadowed(streams[Direct].req.tool, streams[Direct].calls,
                    streams[Direct].threw, C32_StreamError)
    /\ C32_Shadowed(exec.tool, exec.calls, exec.threw,
                    IF exec.pc = "responded" THEN exec.response.error
                    ELSE AdapterError("custom"))

\* the built-in browser tool is disabled and a custom tool of that name
\* answered the request
C32_Witness ==
    /\ "browser" \in customTools
    /\ "browser" \notin enabled
    /\ streams[Direct].req.tool = "browser"
    /\ streams[Direct].threw = "no"
    /\ streams[Direct].calls = <<Call("custom", FALSE)>>

C32_WitnessEnabled ==
    /\ "browser" \in customTools
    /\ "browser" \in enabled
    /\ exec.tool = "browser"
    /\ exec.threw = "no"
    /\ exec.calls = <<Call("custom", FALSE)>>

\* C33: the search query the browser fallback derives from a URL is the
\* hostname followed by the path tokens, whitespace-collapsed: for every URL
\* that parses it has no leading, trailing or repeated whitespace; for a URL
\* that does not parse the raw string is the query.
C33_Collapsed(q) ==
    \/ q = <<>>
    \/ /\ q[1] # " "
       /\ q[Len(q)] # " "
       /\ \A k \in 1..(Len(q) - 1) : ~(q[k] = " " /\ q[k + 1] = " ")

C33_Raw(payload, calls) ==
    (Len(calls) = 2 /\ calls[2].adapter = "search" /\ payload.url.kind = "invalid")
        => calls[2].query = payload.url.raw

C33_Parsed(payload, calls) ==
    (Len(calls) = 2 /\ calls[2].adapter = "search" /\ payload.url.kind = "valid")
        => C33_Collapsed(calls[2].query)

C33_FallbackQuery ==
    /\ C33_Raw(streams[Direct].req.payload, streams[Direct].calls)
    /\ C33_Raw(exec.payload, exec.calls)
    /\ C33_Parsed(streams[Direct].req.payload, streams[Direct].calls)
    /\ C33_Parsed(exec.payload, exec.calls)

\* the parts of C33 the dispatcher keeps: the raw string for a URL that does
\* not parse, and no whitespace at either end of the query of one that does
C33_RawAndTrimmed ==
    /\ C33_Raw(streams[Direct].req.payload, streams[Direct].calls)
    /\ C33_Raw(exec.payload, exec.calls)
    /\ \A calls \in {streams[Direct].calls, exec.calls} :
          (Len(calls) = 2 /\ calls[2].adapter = "search" /\ calls[2].query # UNDEFINED
                /\ calls[2].query # <<>>)
             => \/ calls[2].query[1] # " " /\ calls[2].query[Len(calls[2].query)] # " "
                \/ \E p \in {streams[Direct].req.payload, exec.payload} : p.url.kind = "invalid"

\* C34: starting from createPipelineContext (stage idle, progress 0), the
\* stage of a pipeline context only ever advances along idle ->
\* query_parsing -> tool_selection -> executing -> summarizing -> complete
\* or failed; complete and failed are never left, and progress stays within
\* 0..100.
C34_Rank(stage) ==
    CASE stage = "idle" -> 0
      [] stage = "query_parsing" -> 1
      [] stage = "tool_selection" -> 2
      [] stage = "executing" -> 3
      [] stage = "summarizing" -> 4
      [] OTHER -> 5

C34_Updated == Len(pipeline'.objects) = Len(pipeline.objects) + 1 /\ pipeline.objects # <<>>

C34_Step ==
    C34_Updated =>
        LET before == pipeline.objects[pipeline'.from]
            after == pipeline'.objects[Len(pipeline'.objects)]
        IN  /\ C34_Rank(after.stage) >= C34_Rank(before.stage)
            /\ before.stage \in {"complete", "failed"} => after.stage = before.stage
            /\ after.progress \in 0..100

\* a new context is idle with progress 0
C34_StartsIdle ==
    pipeline.objects # <<>>
        => (pipeline.objects[1].stage = "idle" /\ pipeline.objects[1].progress = 0)

C34_StageAdvances == []C34_StartsIdle /\ [][C34_Step]_vars

\* C37: for a context obtained from createPipelineContext by any sequence of
\* updateStage calls, endTime is defined exactly when the stage is complete
\* or failed; updateStage returns a new context that differs from its
\* argument only in stage, progress and endTime, and leaves its argument as
\* it was.
C37_Rest(context) ==
    <<context.originalQuery, context.intent, context.decomposedQueries,
      context.selectedTool, context.taskResults, context.finalAnswer,
      context.citations, context.startTime>>

C37_EndTime ==
    \A k \in 1..Len(pipeline.objects) :
        pipeline.objects[k].endTime.defined
            <=> pipeline.objects[k].stage \in {"complete", "failed"}

C37_Step ==
    C34_Updated =>
        /\ \A k \in 1..Len(pipeline.objects) : pipeline'.objects[k] = pipeline.objects[k]
        /\ C37_Rest(pipeline'.objects[Len(pipeline'.objects)])
              = C37_Rest(pipeline.objects[pipeline'.from])

C37_UpdateStage == []C37_EndTime /\ [][C37_Step]_vars

\* a context that was complete, and the one updateStage made of it for the
\* stage executing: the first keeps its endTime, the second has none
C37_Witness ==
    /\ Len(pipeline.objects) = 3
    /\ pipeline.from = 2
    /\ pipeline.objects[2].stage = "complete"
    /\ pipeline.objects[2].endTime.defined
    /\ pipeline.objects[3].stage = "executing"
    /\ ~pipeline.objects[3].endTime.defined
    /\ pipeline.objects[3].originalQuery = <<"2", "+", "2">>

\* C35: registry and dispatcher agree. For every tool name, dispatchTool
\* gets past its known-and-enabled check exactly when a tool of that name is
\* in the list getAvailableTools returns.
C35_Listed(list, name) == \E k \in 1..Len(list) : list[k].name = name

C35_Agree ==
    \A i \in 1..Len(registry.returned), j \in 1..Len(registry.dispatched) :
        registry.dispatched[j].passed
            <=> C35_Listed(registry.returned[i], registry.dispatched[j].tool)

\* a disabled built-in tool was refused and is not listed, while the custom
\* tool of the registry is listed
C35_Witness ==
    /\ registry.returned # <<>>
    /\ registry.dispatched # <<>>
    /\ registry.dispatched[1].tool = "search"
    /\ ~registry.dispatched[1].passed
    /\ C35_Listed(registry.returned[1], "mytool")

C35_WitnessPassed ==
    /\ registry.returned # <<>>
    /\ registry.dispatched # <<>>
    /\ registry.dispatched[1].tool = "browser"
    /\ "browser" \notin enabled
    /\ registry.dispatched[1].passed

\* C36: dispatchTool never invokes the adapter of a built-in tool whose
\* enabled flag is false, on any path, the fallback from browser to search
\* with the search tool disabled included.
C36_Enabled(calls) ==
    \A k \in 1..Len(calls) : calls[k].adapter \in BuiltIn => calls[k].adapter \in enabled

C36_NoDisabledAdapter ==
    /\ C36_Enabled(streams[Direct].calls)
    /\ C36_Enabled(exec.calls)

\* the part of C36 the first check keeps: the adapter a call invokes first
\* is not the one of a disabled built-in tool
C36_FirstAdapterEnabled ==
    \A calls \in {streams[Direct].calls, exec.calls} :
        calls # <<>> => C36_Enabled(<<calls[1]>>)

\* C38: executeBrowser makes a network request for a URL only if
\* BROWSER_ALLOW_UNSAFE_URLS is true, or the host of the URL is localhost or
\* 127.0.0.1, or the host equals an allowed domain or is a subdomain of one;
\* for every other host the call fails before any request is made, with
\* 'URL not allowed' unless the validation of the URL has refused it first.
C38_Permitted ==
    \/ browser.allowUnsafe
    \/ browser.url.hostname \in {Localhost, Loopback}
    \/ \E k \in 1..Len(browser.domains) :
          \/ browser.url.hostname = browser.domains[k]
          \/ endsWith(browser.url.hostname, <<".">> \o browser.domains[k])

C38_Allowlist ==
    browser.pc = "done" =>
        /\ browser.requests # <<>> => C38_Permitted
        /\ ~C38_Permitted =>
              /\ browser.requests = <<>>
              /\ browser.error \in {<<"URL not allowed">>, <<"Invalid URL">>}

\* the parts of C38 the adapter keeps: no request for a host that does not
\* even end with an allowed domain, and a request for every permitted host
\* whose URL is valid
C38_SuffixAllowlist ==
    browser.pc = "done" =>
        /\ browser.requests # <<>> =>
              \/ C38_Permitted
              \/ \E k \in 1..Len(browser.domains) :
                    endsWith(browser.url.hostname, browser.domains[k])
        /\ (C38_Permitted /\ validateUrl(browser.url)) => browser.requests # <<>>

\* C39: with auditing enabled, after any sequence of logPlanGenerated,
\* logTaskExecuted and logError calls the audit log holds at most 100
\* entries (AuditLimit in the model), and they are the most recent
\* min(n, 100) entries in the order they were added; with auditing disabled
\* no entry is ever stored and getAuditLog returns an empty log.
C39_Ids(entries) == [k \in 1..Len(entries) |-> <<entries[k].id, entries[k].type>>]

C39_Recent(n) ==
    C39_Ids(SliceLast(SubSeq(auditLog.added, 1, n), AuditLimit))

C39_On == AuditOn(auditLog.variant, auditLog.flag)

C39_WitnessOff ==
    /\ ~C39_On
    /\ Len(auditLog.added) = MaxAuditCalls
    /\ auditLog.reads > 0
    /\ auditLog.read.at = MaxAuditCalls

====
